---- MODULE Spec2Model ----
(***************************************************************************)
(* The climate-control loop and its energy accounting of the smart         *)
(* thermostat (hvac.go, sensor.go, database.go), with the earlier revision *)
(* of the controller that carries the periodic energy logging              *)
(* (unnamed/part_007).                                                     *)
(*                                                                         *)
(* Two programs are modelled.  Spec is the controller main.go builds       *)
(* (hvac.go: eco mode, UpdateHVACLogicWithEco).  SpecPeriodic is the       *)
(* revision of part_007 (UpdateHVACLogic with logPeriodicRuntime, no eco   *)
(* mode).  Every operation runs under hvacMutex.Lock for its whole body,   *)
(* so in these two each one is a single atomic action.  SpecLocked is      *)
(* hvac.go again with the operations taken apart into their lock, their    *)
(* writes and their unlock, run by three goroutines.                       *)
(* SpecScenario is part_007 driven by main.go's 30 second ticker with a    *)
(* fixed reading, and SpecTrack is energy.go's TrackEnergyUsage alone.      *)
(* SpecSensor is sensor.go statement by statement under sensorMutex,       *)
(* SpecStorage is Spec with the database closed by the shutdown handler,   *)
(* and SpecMenu is the controller behind main.go's menu and profile.go.    *)
(* SpecMutex is the lock statements of all goroutines over hvacMutex,      *)
(* sensorMutex and geofenceMutex under a fair scheduler, SpecReadings is   *)
(* the sensor reads with the clock running, and SpecProfile is             *)
(* ApplyProfile's two calls beside the control loop.                       *)
(*                                                                         *)
(* Units.  Temperatures are float64 in the source; here they are integers  *)
(* counting half degrees (22.0 C is 44), plus the float64 value NaN, for   *)
(* which every comparison is false.  Time is counted in half minutes, the  *)
(* period of hvacControlLoop's ticker; 0 is the zero time.Time.  Energy is *)
(* counted in 1/120 kWh, eco savings in 1/100 kWh.                         *)
(***************************************************************************)
EXTENDS Integers, Sequences, FiniteSets, TLC

VARIABLES
    hvacState,      \* hvac.go: var hvacState HVACState
    startTime,      \* hvac.go / part_007: var startTime time.Time
    lastEnergyLog,  \* part_007: var lastEnergyLog time.Time
    ecoStats,       \* hvac.go: var ecoStats EcoModeStats
    sensorHealth,   \* sensor.go: var sensorHealth
    errorCount,     \* sensor.go: var errorCount
    energy_logs,    \* table energy_logs, in insertion order
    now,            \* the clock read by time.Now()
    result,         \* what the last call returned and which rows it inserted
    calls,          \* number of foreground calls made so far
    runBegan,       \* when the run in progress began (isRunning turned true), else 0
    startMode,      \* the mode in force when startTime was last set, "none" while it is zero
    lastEvent,      \* the last hvac_start or hvac_stop event logged, "none" before the first
    hvacMutex,      \* hvac.go: var hvacMutex sync.RWMutex
    pc,             \* where each goroutine is in the operation it runs
    local,          \* the goroutines' local variables and return values
    sensorMutex,    \* sensor.go: var sensorMutex sync.RWMutex
    lastReading,    \* sensor.go: var lastReading SensorReading
    sensorLocal,    \* each goroutine's local variables inside the sensor functions
    db,             \* database.go: var db *sql.DB, "open" or "closed"
    geofenceMutex,  \* away_mode.go: geofenceMutex sync.RWMutex
    at              \* where each goroutine is among the lock statements of its operation

vars == <<hvacState, startTime, lastEnergyLog, ecoStats, sensorHealth,
          errorCount, energy_logs, now, result, calls, runBegan, startMode,
          lastEvent, hvacMutex, pc, local, sensorMutex, lastReading, sensorLocal, db,
          geofenceMutex, at>>

----------------------------------------------------------------------------
(* Bounds of the exploration *)

\* at most MaxBusy goroutines are inside an operation at once (a cycle of
\* goroutines waiting for the three mutexes has at most three members)
MaxBusy == 3

\* the clock stops at MaxTime (hvac.go) and at MaxTimePeriodic (part_007)
MaxTime == 3
MaxTimePeriodic == 7
\* no tick runs once energy_logs holds MaxRecords rows
MaxRecords == 2
\* a behaviour holds at most MaxCalls foreground calls
MaxCalls == 3
\* TrackEnergyUsage is called with at most MaxMinutes minutes
MaxMinutes == 10

----------------------------------------------------------------------------
(* float64 *)

NaN == -1000

IsNaN(x) == x = NaN

FLt(a, b) == ~IsNaN(a) /\ ~IsNaN(b) /\ a < b

FGt(a, b) == ~IsNaN(a) /\ ~IsNaN(b) /\ a > b

FAdd(a, d) == IF IsNaN(a) THEN NaN ELSE a + d

----------------------------------------------------------------------------
(* time.Time and time.Duration *)

ZeroTime == 0

IsZero(t) == t = ZeroTime

\* int(d.Minutes()): whole minutes of a duration, truncated
Minutes(d) == d \div 2

\* 2 * time.Minute
TwoMinutes == 2 * 2

----------------------------------------------------------------------------
(* Inputs *)

ModeOff == "off"
ModeHeat == "heat"
ModeCool == "cool"
ModeFan == "fan"

\* Mode strings a caller can pass, as sequences of characters.
ModeInputs ==
    { <<"o","f","f">>, <<"h","e","a","t">>, <<"c","o","o","l">>, <<"f","a","n">>,
      <<" ","o","f","f"," ">>, <<"<","f","a","n",">">> }

\* Temperatures a caller can pass: 9.5, 21, 22, 23, 35.5 and NaN
\* (strconv.ParseFloat in main.go accepts the text "NaN").
TempInputs == {19, 42, 43, 44, 71, NaN}

\* Values 18.0 + rand.Float64()*10.0 can produce: 20, 22 and 24
Readings == {40, 44, 48}

Roles == {"homeowner", "guest"}

\* The goroutines that use hvacState: hvacControlLoop, the command line
\* (runCLI) and a reader of the status (maintenanceCheckLoop)
Goroutines == {"loop", "cli", "monitor"}

\* The call the command line is in: none
NoCall == [op |-> "none", arg |-> 0]

\* The locals of a goroutine that is in no sensor function: all tells that
\* the read was called by ReadAllSensors, drawn is the value just read,
\* failed that one of ReadAllSensors' three reads returned an error, reading
\* is ReadAllSensors' reading and status GetSensorStatus' return value.
NoSensorCall ==
    [all |-> FALSE, drawn |-> 0, failed |-> FALSE,
     reading |-> [Temperature |-> 0, Humidity |-> 0, CO |-> 0, Timestamp |-> 0],
     status |-> [IsHealthy |-> TRUE, LastReading |-> 0, ErrorCount |-> 0]]

----------------------------------------------------------------------------
(* database.go *)

RECURSIVE TrimLeft(_)
TrimLeft(s) == IF s # <<>> /\ Head(s) = " " THEN TrimLeft(Tail(s)) ELSE s

RECURSIVE TrimRight(_)
TrimRight(s) ==
    IF s # <<>> /\ s[Len(s)] = " " THEN TrimRight(SubSeq(s, 1, Len(s) - 1)) ELSE s

\* strings.TrimSpace
TrimSpace(s) == TrimRight(TrimLeft(s))

\* html.EscapeString on one character
EscapeChar(c) ==
    CASE c = "<" -> <<"&","l","t",";">>
      [] c = ">" -> <<"&","g","t",";">>
      [] c = "&" -> <<"&","a","m","p",";">>
      [] c = "'" -> <<"&","#","3","9",";">>
      [] c = "\"" -> <<"&","#","3","4",";">>
      [] OTHER -> <<c>>

RECURSIVE EscapeString(_)
EscapeString(s) ==
    IF s = <<>> THEN <<>> ELSE EscapeChar(Head(s)) \o EscapeString(Tail(s))

SanitizeInput(input) == EscapeString(TrimSpace(input))

\* HVACMode(mode): the string as a mode value; the four constants are kept
\* as TLA+ strings, anything else is kept as the character sequence.
HVACModeOf(s) ==
    CASE s = <<"o","f","f">> -> ModeOff
      [] s = <<"h","e","a","t">> -> ModeHeat
      [] s = <<"c","o","o","l">> -> ModeCool
      [] s = <<"f","a","n">> -> ModeFan
      [] OTHER -> "invalid"

\* nil, or the error
ValidateTemperatureInput(temp) ==
    IF FLt(temp, 20) \/ FGt(temp, 70)
    THEN "temperature out of safe range"
    ELSE "nil"

\* The goroutines of the program: main.go starts the loops (main.go:45-49)
\* and reads the menu itself; away_mode.go has the geofence loop
Threads == {"hvacControlLoop", "sensorMonitorLoop", "awayModeCheckLoop",
            "maintenanceCheckLoop", "GeofenceMonitorLoop", "cli"}

\* A goroutine between two operations
Returned0 == [op |-> "idle", i |-> 0, waiting |-> FALSE]

----------------------------------------------------------------------------
(* Initial state: InitializeSensors, InitializeHVAC (main.go) *)

Init ==
    /\ now = 1
    /\ hvacState = [Mode |-> ModeOff, TargetTemp |-> 44, CurrentTemp |-> 40,
                    IsRunning |-> FALSE, LastUpdate |-> 1, EcoMode |-> FALSE]
    /\ startTime = ZeroTime
    /\ lastEnergyLog = ZeroTime
    /\ ecoStats = [EnergySaved |-> 0, CyclesSaved |-> 0, ActiveSince |-> ZeroTime]
    /\ sensorHealth = TRUE
    /\ errorCount = 0
    /\ energy_logs = <<>>
    /\ result = [err |-> "nil", hvac_state |-> 0, event |-> "none"]
    /\ calls = 0
    /\ runBegan = ZeroTime
    /\ startMode = "none"
    /\ lastEvent = "none"
    /\ hvacMutex = [writer |-> "none", readers |-> {}]
    /\ pc = [g \in Goroutines |-> "idle"]
    /\ local = [currentTemp |-> 0, call |-> NoCall, status |-> hvacState]
    /\ sensorMutex = [writer |-> "none", readers |-> {}]
    /\ lastReading = [Temperature |-> 40, Humidity |-> 50, CO |-> 0, Timestamp |-> 1]
    /\ sensorLocal = [g \in Goroutines |-> NoSensorCall]
    /\ db = "open"
    /\ geofenceMutex = [writer |-> "none", readers |-> {}]
    /\ at = [t \in Threads |-> Returned0]

----------------------------------------------------------------------------
(* What a call hands back: the operation, the error it returned ("nil" for *)
(* none) and the number of rows it inserted into table hvac_state.         *)

Returned(op, err, rows) ==
    [err |-> err, hvac_state |-> IF db = "open" THEN rows ELSE 0, event |-> "none"]

\* What a tick returns when it has logged an hvac_start or hvac_stop event
Logged(event) == [Returned("UpdateHVACLogic", "nil", 0) EXCEPT !.event = event]

----------------------------------------------------------------------------
(* hvac.go: the foreground mutators *)

\* SetHVACMode without the line that clears IsRunning when the mode is off
SetHVACModeKeepsRunning(mode) ==
    LET hvacMode == HVACModeOf(SanitizeInput(mode)) IN
    IF hvacMode # ModeOff /\ hvacMode # ModeHeat /\ hvacMode # ModeCool /\ hvacMode # ModeFan
    THEN /\ result' = Returned("SetHVACMode", "invalid HVAC mode", 0)
         /\ UNCHANGED <<hvacState, startTime, lastEnergyLog, ecoStats, sensorHealth,
                        errorCount, energy_logs, now>>
    ELSE /\ hvacState' = [hvacState EXCEPT !.Mode = hvacMode, !.LastUpdate = now]
         /\ result' = Returned("SetHVACMode", "nil", 1)
         /\ UNCHANGED <<startTime, lastEnergyLog, ecoStats, sensorHealth,
                        errorCount, energy_logs, now>>

\* SetHVACMode clearing IsRunning on every accepted call
SetHVACModeStopsAlways(mode) ==
    LET hvacMode == HVACModeOf(SanitizeInput(mode)) IN
    IF hvacMode # ModeOff /\ hvacMode # ModeHeat /\ hvacMode # ModeCool /\ hvacMode # ModeFan
    THEN /\ result' = Returned("SetHVACMode", "invalid HVAC mode", 0)
         /\ UNCHANGED <<hvacState, startTime, lastEnergyLog, ecoStats, sensorHealth,
                        errorCount, energy_logs, now>>
    ELSE /\ hvacState' = [hvacState EXCEPT
                              !.Mode = hvacMode,
                              !.LastUpdate = now,
                              !.IsRunning = FALSE]
         /\ result' = Returned("SetHVACMode", "nil", 1)
         /\ UNCHANGED <<startTime, lastEnergyLog, ecoStats, sensorHealth,
                        errorCount, energy_logs, now>>

\* SetHVACMode writing LastUpdate before it validates the mode
SetHVACModeWritesFirst(mode) ==
    LET hvacMode == HVACModeOf(SanitizeInput(mode)) IN
    IF hvacMode # ModeOff /\ hvacMode # ModeHeat /\ hvacMode # ModeCool /\ hvacMode # ModeFan
    THEN /\ hvacState' = [hvacState EXCEPT !.LastUpdate = now]
         /\ result' = Returned("SetHVACMode", "invalid HVAC mode", 0)
         /\ UNCHANGED <<startTime, lastEnergyLog, ecoStats, sensorHealth,
                        errorCount, energy_logs, now>>
    ELSE /\ hvacState' = [hvacState EXCEPT
                              !.Mode = hvacMode,
                              !.LastUpdate = now,
                              !.IsRunning = IF hvacMode = ModeOff THEN FALSE ELSE @]
         /\ result' = Returned("SetHVACMode", "nil", 1)
         /\ UNCHANGED <<startTime, lastEnergyLog, ecoStats, sensorHealth,
                        errorCount, energy_logs, now>>

SetHVACMode(mode) ==
    LET hvacMode == HVACModeOf(SanitizeInput(mode)) IN
    IF hvacMode # ModeOff /\ hvacMode # ModeHeat /\ hvacMode # ModeCool /\ hvacMode # ModeFan
    THEN /\ result' = Returned("SetHVACMode", "invalid HVAC mode", 0)
         /\ UNCHANGED <<hvacState, startTime, lastEnergyLog, ecoStats, sensorHealth,
                        errorCount, energy_logs, now>>
    ELSE /\ hvacState' = [hvacState EXCEPT
                              !.Mode = hvacMode,
                              !.LastUpdate = now,
                              !.IsRunning = IF hvacMode = ModeOff THEN FALSE ELSE @]
         /\ result' = Returned("SetHVACMode", "nil", 1)
         /\ UNCHANGED <<startTime, lastEnergyLog, ecoStats, sensorHealth,
                        errorCount, energy_logs, now>>

SetTargetTemperature(temp) ==
    LET err == ValidateTemperatureInput(temp) IN
    IF err # "nil"
    THEN /\ result' = Returned("SetTargetTemperature", err, 0)
         /\ UNCHANGED <<hvacState, startTime, lastEnergyLog, ecoStats, sensorHealth,
                        errorCount, energy_logs, now>>
    ELSE /\ hvacState' = [hvacState EXCEPT !.TargetTemp = temp, !.LastUpdate = now]
         /\ result' = Returned("SetTargetTemperature", "nil", 1)
         /\ UNCHANGED <<startTime, lastEnergyLog, ecoStats, sensorHealth,
                        errorCount, energy_logs, now>>

\* SetEcoMode that keeps the totals when eco mode is enabled
SetEcoModeKeepsTotals(enable, role) ==
    IF role # "homeowner"
    THEN /\ result' = Returned("SetEcoMode", "only homeowners can change eco mode", 0)
         /\ UNCHANGED <<hvacState, startTime, lastEnergyLog, ecoStats, sensorHealth,
                        errorCount, energy_logs, now>>
    ELSE /\ hvacState' = [hvacState EXCEPT !.EcoMode = enable]
         /\ ecoStats' = IF enable
                         THEN [ecoStats EXCEPT !.ActiveSince = now]
                         ELSE ecoStats
         /\ result' = Returned("SetEcoMode", "nil", 0)
         /\ UNCHANGED <<startTime, lastEnergyLog, sensorHealth, errorCount,
                        energy_logs, now>>

\* SetEcoMode that ends the run when eco mode is switched off
SetEcoModeStopsRun(enable, role) ==
    IF role # "homeowner"
    THEN /\ result' = Returned("SetEcoMode", "only homeowners can change eco mode", 0)
         /\ UNCHANGED <<hvacState, startTime, lastEnergyLog, ecoStats, sensorHealth,
                        errorCount, energy_logs, now>>
    ELSE /\ hvacState' = [hvacState EXCEPT !.EcoMode = enable,
                                          !.IsRunning = IF enable THEN @ ELSE FALSE]
         /\ ecoStats' = IF enable
                         THEN [EnergySaved |-> 0, CyclesSaved |-> 0, ActiveSince |-> now]
                         ELSE ecoStats
         /\ result' = Returned("SetEcoMode", "nil", 0)
         /\ UNCHANGED <<startTime, lastEnergyLog, sensorHealth,
                        errorCount, energy_logs, now>>

\* SetEcoMode that writes the setting before it looks at the role
SetEcoModeWritesFirst(enable, role) ==
    IF role # "homeowner"
    THEN /\ hvacState' = [hvacState EXCEPT !.EcoMode = enable]
         /\ result' = Returned("SetEcoMode", "only homeowners can change eco mode", 0)
         /\ UNCHANGED <<startTime, lastEnergyLog, ecoStats, sensorHealth,
                        errorCount, energy_logs, now>>
    ELSE /\ hvacState' = [hvacState EXCEPT !.EcoMode = enable]
         /\ ecoStats' = IF enable
                         THEN [EnergySaved |-> 0, CyclesSaved |-> 0, ActiveSince |-> now]
                         ELSE ecoStats
         /\ result' = Returned("SetEcoMode", "nil", 0)
         /\ UNCHANGED <<startTime, lastEnergyLog, sensorHealth,
                        errorCount, energy_logs, now>>

SetEcoMode(enable, role) ==
    IF role # "homeowner"
    THEN /\ result' = Returned("SetEcoMode", "only homeowners can change eco mode", 0)
         /\ UNCHANGED <<hvacState, startTime, lastEnergyLog, ecoStats, sensorHealth,
                        errorCount, energy_logs, now>>
    ELSE /\ hvacState' = [hvacState EXCEPT !.EcoMode = enable]
         /\ ecoStats' = IF enable
                         THEN [EnergySaved |-> 0, CyclesSaved |-> 0, ActiveSince |-> now]
                         ELSE ecoStats
         /\ result' = Returned("SetEcoMode", "nil", 0)
         /\ UNCHANGED <<startTime, lastEnergyLog, sensorHealth,
                        errorCount, energy_logs, now>>

----------------------------------------------------------------------------
(* Energy accounting *)

\* estimateEnergyUsage with the rates of heat and cool exchanged
estimateEnergyUsageExchanged(mode, runtimeMinutes) ==
    LET kwhPerHour == CASE mode = ModeHeat -> 6
                        [] mode = ModeCool -> 5
                        [] mode = ModeFan -> 1
                        [] OTHER -> 0
    IN kwhPerHour * runtimeMinutes

\* estimateEnergyUsage, in 1/120 kWh: 2.5, 3.0 and 0.5 kWh per hour are
\* 5, 6 and 1 units per minute
estimateEnergyUsage(mode, runtimeMinutes) ==
    LET kwhPerHour == CASE mode = ModeHeat -> 5
                        [] mode = ModeCool -> 6
                        [] mode = ModeFan -> 1
                        [] OTHER -> 0
    IN kwhPerHour * runtimeMinutes

\* One row of energy_logs.  since and began are not columns: since is the
\* startTime the runtime was measured from and began is when the run began,
\* kept to tell which stretch of which run the row covers.
EnergyRow(mode, runtime, since) ==
    [hvac_mode |-> mode, runtime_minutes |-> runtime,
     estimated_kwh |-> estimateEnergyUsage(mode, runtime),
     timestamp |-> now, since |-> since, began |-> runBegan]

\* db.Exec("INSERT INTO energy_logs ..."): the rows after the call, whose
\* error the caller may look at or not; on a closed database Exec fails.
InsertEnergyLog(row) == IF db = "open" THEN Append(energy_logs, row) ELSE energy_logs

\* hvac.go logRuntime: the rows after the call (startTime is left as it is)
logRuntime ==
    IF ~IsZero(startTime)
    THEN InsertEnergyLog(EnergyRow(hvacState.Mode, Minutes(now - startTime), startTime))
    ELSE energy_logs

----------------------------------------------------------------------------
(* sensor.go *)

\* ReadTemperature's range check on the drawn value: temp < -50 || temp > 100
OutOfPhysicalRange(temp) == FLt(temp, -100) \/ FGt(temp, 200)

SimulateSensorFailure ==
    /\ sensorHealth' = FALSE
    /\ result' = Returned("SimulateSensorFailure", "nil", 0)
    /\ UNCHANGED <<hvacState, startTime, lastEnergyLog, ecoStats,
                   errorCount, energy_logs, now>>

ResetSensor ==
    /\ sensorHealth' = TRUE
    /\ errorCount' = 0
    /\ result' = Returned("ResetSensor", "nil", 0)
    /\ UNCHANGED <<hvacState, startTime, lastEnergyLog, ecoStats,
                   energy_logs, now>>

----------------------------------------------------------------------------
(* hvac.go: the control tick, UpdateHVACLogic -> UpdateHVACLogicWithEco *)

\* The heat start threshold with the eco and standard values exchanged
heatThresholdExchanged == IF hvacState.EcoMode THEN 2 ELSE 4

\* The thresholds of UpdateHVACLogicWithEco, wider in eco mode
heatThreshold == IF hvacState.EcoMode THEN 4 ELSE 2

\* The cooling start margins with the standard and the eco value exchanged
coolThresholdExchanged == IF hvacState.EcoMode THEN 2 ELSE 4

coolThreshold == IF hvacState.EcoMode THEN 4 ELSE 2

heatStopThreshold == IF hvacState.EcoMode THEN 2 ELSE 1

coolStopThreshold == IF hvacState.EcoMode THEN 2 ELSE 1

\* A stop that counts an avoided cycle whether eco mode is on or not
TrackEcoSavingsAlways(saving) ==
    [ecoStats EXCEPT !.CyclesSaved = @ + 1, !.EnergySaved = @ + saving]

\* "Track eco savings if in eco mode": the statistics after a stop, saving in
\* 1/100 kWh
TrackEcoSavings(saving) ==
    IF hvacState.EcoMode
    THEN [ecoStats EXCEPT !.CyclesSaved = @ + 1, !.EnergySaved = @ + saving]
    ELSE ecoStats

\* A tick that stores the reading and never starts or stops a run
EcoLogicStoresReadingOnly(currentTemp) ==
    /\ hvacState' = [hvacState EXCEPT !.CurrentTemp = currentTemp, !.LastUpdate = now]
    /\ result' = Logged("none")
    /\ UNCHANGED <<startTime, energy_logs, ecoStats>>

\* The part of UpdateHVACLogicWithEco after a successful sensor read.
EcoLogic(currentTemp) ==
    LET target == hvacState.TargetTemp
        Start == /\ hvacState' = [hvacState EXCEPT !.CurrentTemp = currentTemp,
                                     !.IsRunning = TRUE, !.LastUpdate = now]
                 /\ startTime' = now
                 /\ result' = Logged("hvac_start")
                 /\ UNCHANGED <<energy_logs, ecoStats>>
        Stop(saving) ==
                 /\ energy_logs' = logRuntime
                 /\ hvacState' = [hvacState EXCEPT !.CurrentTemp = currentTemp,
                                     !.IsRunning = FALSE, !.LastUpdate = now]
                 /\ ecoStats' = TrackEcoSavings(saving)
                 /\ result' = Logged("hvac_stop")
                 /\ UNCHANGED startTime
        Keep ==  /\ hvacState' = [hvacState EXCEPT !.CurrentTemp = currentTemp,
                                     !.LastUpdate = now]
                 /\ result' = Logged("none")
                 /\ UNCHANGED <<startTime, energy_logs, ecoStats>>
    IN
    CASE hvacState.Mode = ModeOff ->
            /\ hvacState' = [hvacState EXCEPT !.CurrentTemp = currentTemp,
                                !.IsRunning = FALSE]
            /\ result' = Logged("none")
            /\ UNCHANGED <<startTime, energy_logs, ecoStats>>
      [] hvacState.Mode = ModeHeat ->
            IF FLt(currentTemp, FAdd(target, -heatThreshold))
            THEN IF ~hvacState.IsRunning THEN Start ELSE Keep
            ELSE IF FGt(currentTemp, FAdd(target, heatStopThreshold))
                 THEN IF hvacState.IsRunning THEN Stop(15) ELSE Keep
                 ELSE Keep
      [] hvacState.Mode = ModeCool ->
            IF FGt(currentTemp, FAdd(target, coolThreshold))
            THEN IF ~hvacState.IsRunning THEN Start ELSE Keep
            ELSE IF FLt(currentTemp, FAdd(target, -coolStopThreshold))
                 THEN IF hvacState.IsRunning THEN Stop(18) ELSE Keep
                 ELSE Keep
      [] hvacState.Mode = ModeFan ->
            /\ hvacState' = [hvacState EXCEPT !.CurrentTemp = currentTemp,
                                !.IsRunning = TRUE, !.LastUpdate = now]
            /\ result' = Logged("none")
            /\ UNCHANGED <<startTime, energy_logs, ecoStats>>

\* A tick that stores what the failed read returned before it looks at the error
UpdateHVACLogicStoresFailedRead ==
    /\ Len(energy_logs) < MaxRecords
    /\ IF ~sensorHealth
       THEN /\ hvacState' = [hvacState EXCEPT !.CurrentTemp = 0]
            /\ result' = Returned("UpdateHVACLogic", "sensor malfunction", 0)
            /\ UNCHANGED <<startTime, lastEnergyLog, ecoStats, sensorHealth,
                           errorCount, energy_logs, now>>
       ELSE \E temp \in Readings :
            /\ EcoLogic(temp)
            /\ UNCHANGED <<lastEnergyLog, sensorHealth, errorCount, now>>

\* A tick whose read counts the malfunction as a sensor error
UpdateHVACLogicCountsMalfunction ==
    /\ Len(energy_logs) < MaxRecords
    /\ IF ~sensorHealth
       THEN /\ errorCount' = errorCount + 1
            /\ result' = Returned("UpdateHVACLogic", "sensor malfunction", 0)
            /\ UNCHANGED <<hvacState, startTime, lastEnergyLog, ecoStats, sensorHealth,
                           energy_logs, now>>
       ELSE \E temp \in Readings :
            /\ EcoLogic(temp)
            /\ UNCHANGED <<lastEnergyLog, sensorHealth, errorCount, now>>

\* A tick that ends the run when the read fails
UpdateHVACLogicStopsOnFailedRead ==
    /\ Len(energy_logs) < MaxRecords
    /\ IF ~sensorHealth
       THEN /\ hvacState' = [hvacState EXCEPT !.IsRunning = FALSE]
            /\ result' = Returned("UpdateHVACLogic", "sensor malfunction", 0)
            /\ UNCHANGED <<startTime, lastEnergyLog, ecoStats, sensorHealth,
                           errorCount, energy_logs, now>>
       ELSE \E temp \in Readings :
            /\ EcoLogic(temp)
            /\ UNCHANGED <<lastEnergyLog, sensorHealth, errorCount, now>>

UpdateHVACLogicWithEco ==
    /\ Len(energy_logs) < MaxRecords
    /\ IF ~sensorHealth
       THEN /\ result' = Returned("UpdateHVACLogic", "sensor malfunction", 0)
            /\ UNCHANGED <<hvacState, startTime, lastEnergyLog, ecoStats, sensorHealth,
                           errorCount, energy_logs, now>>
       ELSE \E temp \in Readings :
            IF OutOfPhysicalRange(temp)
            THEN /\ errorCount' = errorCount + 1
                 /\ result' = Returned("UpdateHVACLogic", "invalid temperature", 0)
                 /\ UNCHANGED <<hvacState, startTime, lastEnergyLog, ecoStats,
                                sensorHealth, energy_logs, now>>
            ELSE /\ EcoLogic(temp)
                 /\ UNCHANGED <<lastEnergyLog, sensorHealth, errorCount, now>>

----------------------------------------------------------------------------
(* part_007: the control tick with periodic energy logging *)

\* part_007 logRuntime: the final flush
logRuntimeFinal ==
    IF ~IsZero(startTime)
    THEN LET runtime == Minutes(now - startTime) IN
         /\ energy_logs' = IF runtime > 0
                           THEN InsertEnergyLog(EnergyRow(hvacState.Mode, runtime, startTime))
                           ELSE energy_logs
         /\ startTime' = ZeroTime
         /\ lastEnergyLog' = ZeroTime
    ELSE UNCHANGED <<energy_logs, startTime, lastEnergyLog>>

\* A periodic flush that moves startTime and leaves lastEnergyLog behind
logPeriodicRuntimeKeepsLastLog ==
    LET timeSinceLastLog == now - lastEnergyLog
        runtime == Minutes(now - startTime)
    IN
    IF /\ ~IsZero(startTime)
       /\ IsZero(lastEnergyLog) \/ timeSinceLastLog >= TwoMinutes
       /\ runtime > 0
    THEN /\ energy_logs' = InsertEnergyLog(EnergyRow(hvacState.Mode, runtime, startTime))
         /\ startTime' = now
         /\ UNCHANGED lastEnergyLog
    ELSE UNCHANGED <<energy_logs, startTime, lastEnergyLog>>

\* part_007 logPeriodicRuntime: the flush of a run that goes on
logPeriodicRuntime ==
    LET timeSinceLastLog == now - lastEnergyLog
        runtime == Minutes(now - startTime)
    IN
    IF /\ ~IsZero(startTime)
       /\ IsZero(lastEnergyLog) \/ timeSinceLastLog >= TwoMinutes
       /\ runtime > 0
    THEN /\ energy_logs' = InsertEnergyLog(EnergyRow(hvacState.Mode, runtime, startTime))
         /\ startTime' = now
         /\ lastEnergyLog' = now
    ELSE UNCHANGED <<energy_logs, startTime, lastEnergyLog>>

\* The part of part_007's UpdateHVACLogic after a successful sensor read.
PeriodicLogic(currentTemp) ==
    LET target == hvacState.TargetTemp
        Start == /\ hvacState' = [hvacState EXCEPT !.CurrentTemp = currentTemp,
                                     !.IsRunning = TRUE, !.LastUpdate = now]
                 /\ startTime' = now
                 /\ result' = Logged("hvac_start")
                 /\ UNCHANGED <<energy_logs, lastEnergyLog>>
        Continue ==
                 /\ logPeriodicRuntime
                 /\ hvacState' = [hvacState EXCEPT !.CurrentTemp = currentTemp,
                                     !.LastUpdate = now]
                 /\ result' = Logged("none")
        Stop ==  /\ logRuntimeFinal
                 /\ hvacState' = [hvacState EXCEPT !.CurrentTemp = currentTemp,
                                     !.IsRunning = FALSE, !.LastUpdate = now]
                 /\ result' = Logged("hvac_stop")
        Keep ==  /\ hvacState' = [hvacState EXCEPT !.CurrentTemp = currentTemp,
                                     !.LastUpdate = now]
                 /\ result' = Logged("none")
                 /\ UNCHANGED <<startTime, energy_logs, lastEnergyLog>>
    IN
    CASE hvacState.Mode = ModeOff ->
            IF hvacState.IsRunning
            THEN /\ logRuntimeFinal
                 /\ hvacState' = [hvacState EXCEPT !.CurrentTemp = currentTemp,
                                     !.IsRunning = FALSE]
                 /\ result' = Logged("none")
            ELSE /\ hvacState' = [hvacState EXCEPT !.CurrentTemp = currentTemp]
                 /\ result' = Logged("none")
                 /\ UNCHANGED <<startTime, energy_logs, lastEnergyLog>>
      [] hvacState.Mode = ModeHeat ->
            IF FLt(currentTemp, FAdd(target, -2))
            THEN IF ~hvacState.IsRunning THEN Start ELSE Continue
            ELSE IF FGt(currentTemp, FAdd(target, 1))
                 THEN IF hvacState.IsRunning THEN Stop ELSE Keep
                 ELSE Keep
      [] hvacState.Mode = ModeCool ->
            IF FGt(currentTemp, FAdd(target, 2))
            THEN IF ~hvacState.IsRunning THEN Start ELSE Continue
            ELSE IF FLt(currentTemp, FAdd(target, -1))
                 THEN IF hvacState.IsRunning THEN Stop ELSE Keep
                 ELSE Keep
      [] hvacState.Mode = ModeFan ->
            IF ~hvacState.IsRunning THEN Start ELSE Continue

UpdateHVACLogic ==
    /\ Len(energy_logs) < MaxRecords
    /\ IF ~sensorHealth
       THEN /\ result' = Returned("UpdateHVACLogic", "sensor malfunction", 0)
            /\ UNCHANGED <<hvacState, startTime, lastEnergyLog, ecoStats, sensorHealth,
                           errorCount, energy_logs, now>>
       ELSE \E temp \in Readings :
            IF OutOfPhysicalRange(temp)
            THEN /\ errorCount' = errorCount + 1
                 /\ result' = Returned("UpdateHVACLogic", "invalid temperature", 0)
                 /\ UNCHANGED <<hvacState, startTime, lastEnergyLog, ecoStats,
                                sensorHealth, energy_logs, now>>
            ELSE /\ PeriodicLogic(temp)
                 /\ UNCHANGED <<ecoStats, sensorHealth, errorCount, now>>

----------------------------------------------------------------------------
(* The clock *)

AdvanceTime(limit) ==
    /\ now < limit
    /\ now' = now + 1
    /\ UNCHANGED <<hvacState, startTime, lastEnergyLog, ecoStats, sensorHealth,
                   errorCount, energy_logs, result>>

----------------------------------------------------------------------------
(* A foreground call, counted against MaxCalls *)

Foreground == calls < MaxCalls /\ calls' = calls + 1

Background == UNCHANGED calls

\* No goroutine is inside a sensor function, and the last reading stays.
SensorIdle == UNCHANGED <<sensorMutex, lastReading, sensorLocal>>

\* The whole operation is one step: no goroutine stays inside it.
Atomic == UNCHANGED <<hvacMutex, pc, local>> /\ SensorIdle

\* A step outside the lock statements of the goroutines
GeofenceIdle == UNCHANGED <<geofenceMutex, at>>

\* No step but CloseDatabase changes the state of the database
DatabaseStays == UNCHANGED db

\* runBegan follows isRunning; startMode follows startTime, which is set by
\* the tick that logs the start and moved by a periodic flush; lastEvent
\* follows the start and stop events the ticks log
Tracked ==
    /\ runBegan' = IF ~hvacState'.IsRunning THEN ZeroTime
                   ELSE IF hvacState.IsRunning THEN runBegan ELSE now
    /\ startMode' = IF IsZero(startTime') THEN "none"
                    ELSE IF startTime' # startTime \/ result'.event = "hvac_start"
                         THEN hvacState.Mode
                         ELSE startMode
    /\ lastEvent' = IF result'.event # "none" THEN result'.event ELSE lastEvent

----------------------------------------------------------------------------
(* The controller main.go builds: hvac.go *)

Next ==
    \/ Foreground /\ (\E mode \in ModeInputs : SetHVACMode(mode)) /\ Tracked /\ GeofenceIdle /\ DatabaseStays /\ Atomic
    \/ Foreground /\ (\E temp \in TempInputs : SetTargetTemperature(temp)) /\ Tracked /\ GeofenceIdle /\ DatabaseStays /\ Atomic
    \/ Foreground /\ (\E enable \in BOOLEAN, role \in Roles : SetEcoMode(enable, role)) /\ Tracked /\ GeofenceIdle /\ DatabaseStays /\ Atomic
    \/ Foreground /\ SimulateSensorFailure /\ Tracked /\ GeofenceIdle /\ DatabaseStays /\ Atomic
    \/ Foreground /\ ResetSensor /\ Tracked /\ GeofenceIdle /\ DatabaseStays /\ Atomic
    \/ Background /\ UpdateHVACLogicWithEco /\ Tracked /\ GeofenceIdle /\ DatabaseStays /\ Atomic
    \/ Background /\ AdvanceTime(MaxTime) /\ Tracked /\ GeofenceIdle /\ DatabaseStays /\ Atomic

Spec == Init /\ [][Next]_vars

\* main.go hvacControlLoop: the ticker fires every 30 seconds for as long as
\* the program runs, and time passes.
Tick == Background /\ UpdateHVACLogicWithEco /\ Tracked /\ GeofenceIdle /\ DatabaseStays /\ Atomic

Clock == Background /\ AdvanceTime(MaxTime) /\ Tracked /\ GeofenceIdle /\ DatabaseStays /\ Atomic

FairSpec == Spec /\ WF_vars(Tick) /\ WF_vars(Clock)

----------------------------------------------------------------------------
(* hvac.go step by step: each operation takes hvacMutex, writes, and        *)
(* releases it on return (defer hvacMutex.Unlock()).                        *)

Goto(g, label) == pc' = [pc EXCEPT ![g] = label]

\* A Lock that does not wait for the holder
LockWithoutWaiting(g) == hvacMutex' = [hvacMutex EXCEPT !.writer = g]

\* hvacMutex.Lock()
Lock(g) ==
    /\ hvacMutex.writer = "none"
    /\ hvacMutex.readers = {}
    /\ hvacMutex' = [hvacMutex EXCEPT !.writer = g]

\* hvacMutex.Unlock()
Unlock(g) == hvacMutex' = [hvacMutex EXCEPT !.writer = "none"]

\* hvacMutex.RLock()
RLock(g) ==
    /\ hvacMutex.writer = "none"
    /\ hvacMutex' = [hvacMutex EXCEPT !.readers = @ \cup {g}]

\* hvacMutex.RUnlock()
RUnlock(g) == hvacMutex' = [hvacMutex EXCEPT !.readers = @ \ {g}]

\* UpdateHVACLogicWithEco: hvacMutex.Lock()
TickLock ==
    /\ pc["loop"] = "idle"
    /\ Len(energy_logs) < MaxRecords
    /\ Lock("loop")
    /\ Goto("loop", "locked")
    /\ UNCHANGED <<hvacState, startTime, lastEnergyLog, ecoStats, sensorHealth,
                   errorCount, energy_logs, now, result, local>>

\* UpdateHVACLogicWithEco: ReadTemperature, return on error, else
\* hvacState.CurrentTemp = currentTemp
TickRead ==
    /\ pc["loop"] = "locked"
    /\ IF ~sensorHealth
       THEN /\ result' = Returned("UpdateHVACLogic", "sensor malfunction", 0)
            /\ Unlock("loop")
            /\ Goto("loop", "idle")
            /\ UNCHANGED <<hvacState, startTime, lastEnergyLog, ecoStats, sensorHealth,
                           errorCount, energy_logs, now, local>>
       ELSE \E temp \in Readings :
            IF OutOfPhysicalRange(temp)
            THEN /\ errorCount' = errorCount + 1
                 /\ result' = Returned("UpdateHVACLogic", "invalid temperature", 0)
                 /\ Unlock("loop")
                 /\ Goto("loop", "idle")
                 /\ UNCHANGED <<hvacState, startTime, lastEnergyLog, ecoStats,
                                sensorHealth, energy_logs, now, local>>
            ELSE /\ hvacState' = [hvacState EXCEPT !.CurrentTemp = temp]
                 /\ local' = [local EXCEPT !.currentTemp = temp]
                 /\ Goto("loop", "stored")
                 /\ UNCHANGED <<hvacMutex, startTime, lastEnergyLog, ecoStats,
                                sensorHealth, errorCount, energy_logs, now, result>>

\* UpdateHVACLogicWithEco: the rest of the body, and the deferred Unlock
TickFinish ==
    /\ pc["loop"] = "stored"
    /\ EcoLogic(local.currentTemp)
    /\ Unlock("loop")
    /\ Goto("loop", "idle")
    /\ local' = [local EXCEPT !.currentTemp = 0]
    /\ UNCHANGED <<lastEnergyLog, sensorHealth, errorCount, now>>

\* The command line enters SetHVACMode, SetTargetTemperature or SetEcoMode:
\* hvacMutex.Lock()
CliLock(call) ==
    /\ pc["cli"] = "idle"
    /\ Lock("cli")
    /\ Goto("cli", "locked")
    /\ local' = [local EXCEPT !.call = call]
    /\ UNCHANGED <<hvacState, startTime, lastEnergyLog, ecoStats, sensorHealth,
                   errorCount, energy_logs, now, result>>

\* The check with which the call returns early
CallRefused(call) ==
    CASE call.op = "SetHVACMode" -> HVACModeOf(SanitizeInput(call.arg)) = "invalid"
      [] call.op = "SetTargetTemperature" -> ValidateTemperatureInput(call.arg) # "nil"
      [] call.op = "SetEcoMode" -> call.arg[2] # "homeowner"

\* The first assignment of the call (hvac.go lines 73, 93, 143)
FirstWrite(call) ==
    CASE call.op = "SetHVACMode" ->
            [hvacState EXCEPT !.Mode = HVACModeOf(SanitizeInput(call.arg))]
      [] call.op = "SetTargetTemperature" -> [hvacState EXCEPT !.TargetTemp = call.arg]
      [] call.op = "SetEcoMode" -> [hvacState EXCEPT !.EcoMode = call.arg[1]]

\* The whole body of the call
CallBody(call) ==
    CASE call.op = "SetHVACMode" -> SetHVACMode(call.arg)
      [] call.op = "SetTargetTemperature" -> SetTargetTemperature(call.arg)
      [] call.op = "SetEcoMode" -> SetEcoMode(call.arg[1], call.arg[2])

\* return, with the deferred hvacMutex.Unlock()
CliReturn ==
    /\ Unlock("cli")
    /\ Goto("cli", "idle")
    /\ local' = [local EXCEPT !.call = NoCall]

\* The call validates and returns its error, or makes its first assignment
CliWrite ==
    /\ pc["cli"] = "locked"
    /\ IF CallRefused(local.call)
       THEN CallBody(local.call) /\ CliReturn
       ELSE /\ hvacState' = FirstWrite(local.call)
            /\ Goto("cli", "stored")
            /\ UNCHANGED <<hvacMutex, local, startTime, lastEnergyLog, ecoStats,
                           sensorHealth, errorCount, energy_logs, now, result>>

\* The call makes its other assignments, inserts its row and returns
CliFinish ==
    /\ pc["cli"] = "stored"
    /\ CallBody(local.call)
    /\ CliReturn

\* GetHVACStatus: hvacMutex.RLock()
StatusRLock ==
    /\ pc["monitor"] = "idle"
    /\ RLock("monitor")
    /\ Goto("monitor", "reading")
    /\ UNCHANGED <<hvacState, startTime, lastEnergyLog, ecoStats, sensorHealth,
                   errorCount, energy_logs, now, result, local>>

\* GetHVACStatus: return hvacState, with the deferred RUnlock
StatusReturn ==
    /\ pc["monitor"] = "reading"
    /\ local' = [local EXCEPT !.status = hvacState]
    /\ RUnlock("monitor")
    /\ Goto("monitor", "idle")
    /\ UNCHANGED <<hvacState, startTime, lastEnergyLog, ecoStats, sensorHealth,
                   errorCount, energy_logs, now, result>>

\* A step that enters or leaves no operation
Outside == pc["cli"] = "idle" /\ UNCHANGED <<hvacMutex, pc, local>>

NextLocked ==
    \/ Background /\ TickLock /\ Tracked /\ GeofenceIdle /\ DatabaseStays /\ SensorIdle
    \/ Background /\ TickRead /\ Tracked /\ GeofenceIdle /\ DatabaseStays /\ SensorIdle
    \/ Background /\ TickFinish /\ Tracked /\ GeofenceIdle /\ DatabaseStays /\ SensorIdle
    \/ Foreground /\ (\E mode \in ModeInputs :
                          CliLock([op |-> "SetHVACMode", arg |-> mode])) /\ Tracked /\ GeofenceIdle /\ DatabaseStays /\ SensorIdle
    \/ Foreground /\ (\E temp \in TempInputs :
                          CliLock([op |-> "SetTargetTemperature", arg |-> temp])) /\ Tracked /\ GeofenceIdle /\ DatabaseStays /\ SensorIdle
    \/ Foreground /\ (\E enable \in BOOLEAN, role \in Roles :
                          CliLock([op |-> "SetEcoMode", arg |-> <<enable, role>>])) /\ Tracked /\ GeofenceIdle /\ DatabaseStays /\ SensorIdle
    \/ Background /\ CliWrite /\ Tracked /\ GeofenceIdle /\ DatabaseStays /\ SensorIdle
    \/ Background /\ CliFinish /\ Tracked /\ GeofenceIdle /\ DatabaseStays /\ SensorIdle
    \/ Foreground /\ SimulateSensorFailure /\ Outside /\ Tracked /\ GeofenceIdle /\ DatabaseStays /\ SensorIdle
    \/ Foreground /\ ResetSensor /\ Outside /\ Tracked /\ GeofenceIdle /\ DatabaseStays /\ SensorIdle
    \/ Background /\ StatusRLock /\ Tracked /\ GeofenceIdle /\ DatabaseStays /\ SensorIdle
    \/ Background /\ StatusReturn /\ Tracked /\ GeofenceIdle /\ DatabaseStays /\ SensorIdle

SpecLocked == Init /\ [][NextLocked]_vars

----------------------------------------------------------------------------
(* The controller of part_007: periodic energy logging, no eco mode *)

NextPeriodic ==
    \/ Foreground /\ (\E mode \in ModeInputs : SetHVACMode(mode)) /\ Tracked /\ GeofenceIdle /\ DatabaseStays /\ Atomic
    \/ Foreground /\ (\E temp \in TempInputs : SetTargetTemperature(temp)) /\ Tracked /\ GeofenceIdle /\ DatabaseStays /\ Atomic
    \/ Foreground /\ SimulateSensorFailure /\ Tracked /\ GeofenceIdle /\ DatabaseStays /\ Atomic
    \/ Foreground /\ ResetSensor /\ Tracked /\ GeofenceIdle /\ DatabaseStays /\ Atomic
    \/ Background /\ UpdateHVACLogic /\ Tracked /\ GeofenceIdle /\ DatabaseStays /\ Atomic
    \/ Background /\ AdvanceTime(MaxTimePeriodic) /\ Tracked /\ GeofenceIdle /\ DatabaseStays /\ Atomic

SpecPeriodic == Init /\ [][NextPeriodic]_vars

----------------------------------------------------------------------------
(* energy.go: TrackEnergyUsage, the insert of a row for given minutes *)

TrackEnergyUsage(mode, runtimeMinutes) ==
    /\ Len(energy_logs) < MaxRecords
    /\ energy_logs' = InsertEnergyLog(EnergyRow(mode, runtimeMinutes, now))
    /\ result' = Returned("TrackEnergyUsage",
                          IF db = "open" THEN "nil" ELSE "sql: database is closed", 0)
    /\ UNCHANGED <<hvacState, startTime, lastEnergyLog, ecoStats, sensorHealth,
                   errorCount, now>>

NextTrack ==
    \E mode \in {ModeOff, ModeHeat, ModeCool, ModeFan}, runtimeMinutes \in 0..MaxMinutes :
        Background /\ TrackEnergyUsage(mode, runtimeMinutes) /\ Tracked /\ GeofenceIdle /\ DatabaseStays /\ Atomic

SpecTrack == Init /\ [][NextTrack]_vars

----------------------------------------------------------------------------
(* part_007 under main.go's ticker: hvacControlLoop calls UpdateHVACLogic   *)
(* once every 30 seconds.  The sensor reads 25.0 every time and the command *)
(* line sets the mode to cool or off and the target to 11.0.                *)

ScenarioReading == 2 * 25

ScenarioTarget == 2 * 11

ScenarioModes == { <<"c","o","o","l">>, <<"o","f","f">> }

\* The ticker has fired: UpdateHVACLogic runs, then the loop waits
TickerTick ==
    /\ pc["loop"] = "idle"
    /\ sensorHealth
    /\ PeriodicLogic(ScenarioReading)
    /\ Goto("loop", "waiting")
    /\ UNCHANGED <<ecoStats, sensorHealth, errorCount, now, hvacMutex, local>>

\* 30 seconds pass and the ticker fires again
TickerWait ==
    /\ pc["loop"] = "waiting"
    /\ AdvanceTime(MaxTimePeriodic)
    /\ Goto("loop", "idle")
    /\ UNCHANGED <<hvacMutex, local>>

NextScenario ==
    \/ Foreground /\ (\E mode \in ScenarioModes : SetHVACMode(mode)) /\ Tracked /\ GeofenceIdle /\ DatabaseStays /\ Atomic
    \/ Foreground /\ SetTargetTemperature(ScenarioTarget) /\ Tracked /\ GeofenceIdle /\ DatabaseStays /\ Atomic
    \/ Background /\ TickerTick /\ Tracked /\ GeofenceIdle /\ DatabaseStays /\ SensorIdle
    \/ Background /\ TickerWait /\ Tracked /\ GeofenceIdle /\ DatabaseStays /\ SensorIdle

SpecScenario == Init /\ [][NextScenario]_vars

----------------------------------------------------------------------------
(* Properties *)

\* The temperatures of the range [10, 35] degrees
InRange(temp) == temp \in 20..70

\* A step is a call of SetHVACMode, or of SetTargetTemperature
SetModeStep == \E mode \in ModeInputs : SetHVACMode(mode)

SetTargetStep == \E temp \in TempInputs : SetTargetTemperature(temp)

\* C1: in every reachable state of the controller, isRunning is false
\* whenever the mode is off.
C1_OffNotRunning == hvacState.Mode = ModeOff => ~hvacState.IsRunning

\* The mode is off and not running after a run that no threshold stopped:
\* it was switched off.
C1_Witness ==
    /\ hvacState.Mode = ModeOff
    /\ ~hvacState.IsRunning
    /\ ~IsZero(startTime)
    /\ energy_logs = <<>>

\* C2: for every temperature outside [10, 35], SetTargetTemperature returns
\* the out-of-range error, leaves the climate state and the run-interval
\* timestamps unchanged and inserts no hvac_state row.
C2_OutOfRangeRejected ==
    [][\A temp \in TempInputs :
          (~InRange(temp) /\ SetTargetTemperature(temp)) =>
              /\ result'.err = "temperature out of safe range"
              /\ result'.hvac_state = 0
              /\ UNCHANGED <<hvacState, startTime, lastEnergyLog>>]_vars

\* C3: targetTemp is within [10, 35] in every reachable state.
C3_TargetInRange == InRange(hvacState.TargetTemp)

C6_MutatorsLeaveRun ==
    [][(SetModeStep \/ SetTargetStep) =>
          /\ hvacState'.IsRunning = hvacState.IsRunning
          /\ UNCHANGED <<startTime, lastEnergyLog, energy_logs>>]_vars

\* The rows of energy_logs written for the run of row i, up to row i
RunRows(i) == {j \in 1..i : energy_logs[j].began = energy_logs[i].began}

RECURSIVE SumMinutes(_)
SumMinutes(rows) ==
    IF rows = {} THEN 0
    ELSE LET j == CHOOSE k \in rows : TRUE
         IN energy_logs[j].runtime_minutes + SumMinutes(rows \ {j})

\* C7: whatever flush of a run is its last, the minutes logged for the run up
\* to it are within one minute of the time the run had lasted, however many
\* periodic flushes came before.  (Times are half minutes.)
C7_RunMinutesWithinOne ==
    \A i \in 1..Len(energy_logs) :
        LET elapsed == energy_logs[i].timestamp - energy_logs[i].began
            logged == 2 * SumMinutes(RunRows(i))
        IN elapsed - logged < 2 /\ logged - elapsed < 2

\* The stretch of time a row counts: its whole minutes, from since on
CountedUntil(row) == row.since + 2 * row.runtime_minutes

\* C8: no stretch of running time is counted in two rows: the stretches
\* counted by any two rows do not overlap.
C8_RowsDisjoint ==
    \A i, j \in 1..Len(energy_logs) :
        i < j => \/ CountedUntil(energy_logs[i]) <= energy_logs[j].since
                 \/ CountedUntil(energy_logs[j]) <= energy_logs[i].since
                 \/ energy_logs[i].runtime_minutes = 0
                 \/ energy_logs[j].runtime_minutes = 0

\* A row has been written for the run in progress
RunAccounted ==
    \E i \in 1..Len(energy_logs) : energy_logs[i].began = runBegan

\* C9: a run that never stops is still accounted: if from some point on the
\* unit runs for ever with a healthy sensor (the run began a whole minute
\* before the clock's bound and energy_logs has room), a row is written for it.
C9_EndlessRunAccounted ==
    <>[](/\ hvacState.IsRunning
         /\ sensorHealth
         /\ runBegan + 2 <= MaxTime
         /\ Len(energy_logs) < MaxRecords) => <>RunAccounted

\* C10: a tick whose sensor read fails returns that error and leaves the
\* climate state, the run-interval timestamps, the eco statistics and
\* energy_logs unchanged.
C10_FailedTickChangesNothing ==
    [][(UpdateHVACLogicWithEco /\ ~sensorHealth) =>
          /\ result'.err = "sensor malfunction"
          /\ UNCHANGED <<hvacState, startTime, lastEnergyLog, ecoStats, energy_logs>>]_vars

\* A tick has failed in the middle of a run, with eco mode on.
C10_Witness ==
    /\ result.err = "sensor malfunction"
    /\ ~sensorHealth
    /\ hvacState.IsRunning
    /\ hvacState.EcoMode

\* The start condition of the hysteresis table (half degrees)
StartCondition(mode, current, target, eco) ==
    CASE mode = ModeHeat -> FLt(current, FAdd(target, IF eco THEN -4 ELSE -2))
      [] mode = ModeCool -> FGt(current, FAdd(target, IF eco THEN 4 ELSE 2))
      [] OTHER -> FALSE

\* C11: from an idle state in Heat or Cool, a successful tick sets isRunning
\* exactly when the start condition of the active row holds for the reading.
C11_StartRule ==
    [][(/\ ~hvacState.IsRunning
        /\ hvacState.Mode \in {ModeHeat, ModeCool}
        /\ result'.err = "nil"
        /\ UpdateHVACLogicWithEco) =>
          (hvacState'.IsRunning <=>
              StartCondition(hvacState.Mode, hvacState'.CurrentTemp,
                             hvacState.TargetTemp, hvacState.EcoMode))]_vars

\* In Heat with eco mode on, a tick has read target - 1.5 and has not started a run.
C11_Witness ==
    /\ hvacState.Mode = ModeHeat
    /\ hvacState.EcoMode
    /\ ~hvacState.IsRunning
    /\ hvacState.CurrentTemp = hvacState.TargetTemp - 3
    /\ result = Logged("none")

\* The stop condition of the hysteresis table (half degrees)
StopCondition(mode, current, target, eco) ==
    CASE mode = ModeHeat -> FGt(current, FAdd(target, IF eco THEN 2 ELSE 1))
      [] mode = ModeCool -> FLt(current, FAdd(target, IF eco THEN -2 ELSE -1))
      [] OTHER -> FALSE

\* A tick of either controller that read the sensor
SuccessfulTick == result'.err = "nil" /\ (UpdateHVACLogicWithEco \/ UpdateHVACLogic)

\* The final flush: the whole minutes since startTime are logged in one row
\* if there are any, and both timestamps are zeroed.
FinalFlush ==
    LET runtime == Minutes(now - startTime) IN
    /\ ~IsZero(startTime)
    /\ IsZero(startTime') /\ IsZero(lastEnergyLog')
    /\ IF runtime > 0
       THEN /\ Len(energy_logs') = Len(energy_logs) + 1
            /\ energy_logs'[Len(energy_logs')].runtime_minutes = runtime
            /\ energy_logs'[Len(energy_logs')].hvac_mode = hvacState.Mode
       ELSE energy_logs' = energy_logs

\* C12: from a running state in Heat or Cool, a successful tick clears
\* isRunning exactly when the stop condition of the active row holds, and that
\* tick performs the final flush and logs one stop event.
C12_StopRule ==
    [][(/\ hvacState.IsRunning
        /\ hvacState.Mode \in {ModeHeat, ModeCool}
        /\ SuccessfulTick) =>
          /\ ~hvacState'.IsRunning <=>
                 StopCondition(hvacState.Mode, hvacState'.CurrentTemp,
                               hvacState.TargetTemp, hvacState.EcoMode)
          /\ ~hvacState'.IsRunning => result'.event = "hvac_stop" /\ FinalFlush]_vars

\* A tick of either controller, successful or not
TickStep == UpdateHVACLogicWithEco \/ UpdateHVACLogic

\* C13: in Fan mode every successful tick leaves isRunning true, whatever the
\* reading, target and eco flag, and no tick clears isRunning.
C13_FanAlwaysRuns ==
    [][(hvacState.Mode = ModeFan /\ TickStep) =>
          /\ result'.err = "nil" => hvacState'.IsRunning
          /\ hvacState.IsRunning => hvacState'.IsRunning]_vars

\* In Fan mode with eco mode on, a tick has read 20.0 against a higher target
\* and the unit runs.
C13_Witness ==
    /\ hvacState.Mode = ModeFan
    /\ hvacState.EcoMode
    /\ hvacState.IsRunning
    /\ hvacState.CurrentTemp = 40
    /\ hvacState.TargetTemp = 44
    /\ hvacState.LastUpdate = now
    /\ result = Logged("none")

\* What a SetHVACMode step does when it rejects the mode
ModeRejected ==
    /\ result'.err = "invalid HVAC mode"
    /\ result'.hvac_state = 0
    /\ UNCHANGED <<hvacState, startTime, lastEnergyLog, ecoStats, sensorHealth,
                   errorCount, energy_logs>>

\* What a SetHVACMode step does when it accepts the mode as m
ModeAccepted(m) ==
    /\ result'.err = "nil"
    /\ result'.hvac_state = 1
    /\ hvacState'.Mode = m
    /\ hvacState'.LastUpdate = now

\* The string between its first and its last character that is not a space
Core(s) ==
    LET idx == {i \in 1..Len(s) : s[i] # " "} IN
    IF idx = {} THEN <<>>
    ELSE SubSeq(s, CHOOSE i \in idx : \A j \in idx : i <= j,
                   CHOOSE i \in idx : \A j \in idx : j <= i)

\* C14 as stated: SetMode with a string that is not one of off, heat, cool,
\* fan returns the invalid-mode error, changes nothing and appends no row;
\* with one of the four it sets the mode and lastUpdate.
C14_OnlyFourValuesAccepted ==
    [][\A mode \in ModeInputs :
          SetHVACMode(mode) =>
              IF HVACModeOf(mode) = "invalid" THEN ModeRejected
              ELSE ModeAccepted(HVACModeOf(mode))]_vars

\* C14 amended: the four values are also accepted with white space around
\* them; every other string is rejected with no change and no row.
C14_TrimmedValueDecides ==
    [][\A mode \in ModeInputs :
          SetHVACMode(mode) =>
              IF HVACModeOf(Core(mode)) = "invalid" THEN ModeRejected
              ELSE ModeAccepted(HVACModeOf(Core(mode)))]_vars

\* An invalid mode has been rejected in the middle of a run.
C14_Witness ==
    /\ result.err = "invalid HVAC mode"
    /\ hvacState.IsRunning
    /\ hvacState.Mode = ModeFan

\* The next tick can read r and end with isRunning = running, having logged
\* event and appended rows of the given minutes to energy_logs
NextTickYields(r, running, event, minutes) ==
    ENABLED /\ UpdateHVACLogicWithEco
            /\ hvacState'.CurrentTemp = r
            /\ hvacState'.IsRunning = running
            /\ result'.event = event
            /\ Len(energy_logs') = Len(energy_logs) + Len(minutes)
            /\ \A i \in 1..Len(minutes) :
                  energy_logs'[Len(energy_logs) + i].runtime_minutes = minutes[i]

\* The rows one tick can append: none, or one row of some whole minutes
TickRows == {<<>>} \cup {<<m>> : m \in 0..Minutes(MaxTime)}

\* C15: a SetMode call with the current mode does not change what the next
\* tick does: for every reading the tick ends with the same isRunning, the
\* same start or stop event and the same energy rows as without the call.
C15_SetModeIdempotent ==
    [][\A mode \in ModeInputs :
          (result'.err = "nil" /\ hvacState'.Mode = hvacState.Mode /\ SetHVACMode(mode)) =>
              \A r \in Readings, running \in BOOLEAN,
                 event \in {"none", "hvac_start", "hvac_stop"}, minutes \in TickRows :
                  NextTickYields(r, running, event, minutes)'
                      <=> NextTickYields(r, running, event, minutes)]_vars

\* SetMode("heat") has been called during a run in Heat.
C15_Witness ==
    /\ calls = 2
    /\ hvacState.Mode = ModeHeat
    /\ hvacState.IsRunning
    /\ ~IsZero(startTime)
    /\ hvacState.CurrentTemp = 40
    /\ hvacState.LastUpdate = now
    /\ result = Returned("SetHVACMode", "nil", 1)

\* C16: every operation holds hvacMutex from its first read to its last
\* write: no two goroutines are inside an operation at once, so no step of
\* one falls between the steps of another, and the status GetHVACStatus
\* returns is never that of a half-applied transition (a mode already off
\* with isRunning not yet cleared).
C16_OperationsExclude ==
    /\ \A g, h \in Goroutines : g # h => pc[g] = "idle" \/ pc[h] = "idle"
    /\ local.status.Mode = ModeOff => ~local.status.IsRunning

\* SetHVACMode("off") has written the mode and not yet cleared IsRunning,
\* and the other goroutines are outside their operations.
C16_Witness ==
    /\ pc["cli"] = "stored"
    /\ hvacState.Mode = ModeOff
    /\ hvacState.IsRunning
    /\ pc["loop"] = "idle"
    /\ pc["monitor"] = "idle"

\* C17: with mode cool, target 11.0 and every reading 25.0, ticking every 30
\* seconds, once the run has lasted 120 seconds (the last tick within 130
\* seconds has run) and is still in progress, a row of 2 minutes and 0.1 kWh
\* has been written for it.
C17_TwoMinuteRowBy130s ==
    (/\ hvacState.Mode = ModeCool
     /\ hvacState.TargetTemp = ScenarioTarget
     /\ hvacState.IsRunning
     /\ pc["loop"] = "waiting"
     /\ now - runBegan >= 4) =>
        \E i \in 1..Len(energy_logs) :
            /\ energy_logs[i].began = runBegan
            /\ energy_logs[i].runtime_minutes = 2
            /\ energy_logs[i].estimated_kwh = 12

\* The fixed rates, in 1/120 kWh per hour: 2.5, 3.0 and 0.5 kWh per hour,
\* and nothing for off
RatePerHour(mode) ==
    CASE mode = ModeHeat -> 300
      [] mode = ModeCool -> 360
      [] mode = ModeFan -> 60
      [] OTHER -> 0

\* C18: the kWh of every row is ratePerHour(mode) * runtimeMinutes / 60, for
\* every mode and every whole number of minutes from 0 on.
C18_KwhFormula ==
    \A i \in 1..Len(energy_logs) :
        60 * energy_logs[i].estimated_kwh =
            RatePerHour(energy_logs[i].hvac_mode) * energy_logs[i].runtime_minutes

\* Rows of 10 minutes of heat (0.4167 kWh, 50/120) and 2 minutes of cool
\* (0.1 kWh, 12/120) have been written.
C18_Witness ==
    /\ Len(energy_logs) = 2
    /\ energy_logs[1].hvac_mode = ModeHeat
    /\ energy_logs[1].runtime_minutes = 10
    /\ energy_logs[1].estimated_kwh = 50
    /\ energy_logs[2].hvac_mode = ModeCool
    /\ energy_logs[2].runtime_minutes = 2
    /\ energy_logs[2].estimated_kwh = 12

\* C19: a flush of less than a whole minute writes nothing: every row of
\* energy_logs has runtime_minutes >= 1 and estimated_kwh >= 0.
C19_NoZeroMinuteRow ==
    \A i \in 1..Len(energy_logs) :
        /\ energy_logs[i].runtime_minutes >= 1
        /\ energy_logs[i].estimated_kwh >= 0

\* C20: SetEcoMode(true) by a homeowner sets ecoMode and resets the eco
\* statistics to no energy saved, no cycles avoided and activation time now,
\* also when eco mode was on already; SetEcoMode(false) clears ecoMode and
\* leaves the statistics as they were.
C20_EcoToggle ==
    [][\A enable \in BOOLEAN :
          SetEcoMode(enable, "homeowner") =>
              /\ result'.err = "nil"
              /\ hvacState'.EcoMode = enable
              /\ ecoStats' = IF enable
                              THEN [EnergySaved |-> 0, CyclesSaved |-> 0,
                                    ActiveSince |-> now]
                              ELSE ecoStats]_vars

\* Eco mode has been switched off after one avoided cooling cycle, and the
\* totals are still there.
C20_Witness ==
    /\ ~hvacState.EcoMode
    /\ ecoStats.CyclesSaved = 1
    /\ ecoStats.EnergySaved = 18
    /\ ~IsZero(ecoStats.ActiveSince)
    /\ result = Returned("SetEcoMode", "nil", 0)

\* C21: SetEcoMode never starts or stops a run: every call, accepted or
\* refused, leaves mode, target, current temperature, isRunning, startTime,
\* lastEnergyLogTime and the energy rows as they were; an accepted call
\* changes the thresholds the next tick uses to those of the new setting.
C21_EcoModeLeavesRun ==
    [][\A enable \in BOOLEAN, role \in Roles :
          SetEcoMode(enable, role) =>
              /\ hvacState'.Mode = hvacState.Mode
              /\ hvacState'.TargetTemp = hvacState.TargetTemp
              /\ hvacState'.CurrentTemp = hvacState.CurrentTemp
              /\ hvacState'.IsRunning = hvacState.IsRunning
              /\ startTime' = startTime
              /\ lastEnergyLog' = lastEnergyLog
              /\ energy_logs' = energy_logs
              /\ (result'.err = "nil" =>
                     /\ heatThreshold' = (IF enable THEN 4 ELSE 2)
                     /\ coolThreshold' = (IF enable THEN 4 ELSE 2)
                     /\ heatStopThreshold' = (IF enable THEN 2 ELSE 1)
                     /\ coolStopThreshold' = (IF enable THEN 2 ELSE 1))]_vars

\* Eco mode has just been switched off in the middle of a run that began
\* while it was on, and the run goes on.
C21_Witness ==
    /\ hvacState.IsRunning
    /\ ~hvacState.EcoMode
    /\ ~IsZero(ecoStats.ActiveSince)
    /\ ~IsZero(startTime)
    /\ startTime >= ecoStats.ActiveSince
    /\ result = Returned("SetEcoMode", "nil", 0)

\* C22: SetEcoMode called by a user whose role is not homeowner returns the
\* error "only homeowners can change eco mode" and changes nothing: ecoMode,
\* the eco statistics and all other state stay as they were.
C22_OnlyHomeownerTogglesEco ==
    [][\A enable \in BOOLEAN, role \in Roles \ {"homeowner"} :
          SetEcoMode(enable, role) =>
              /\ result'.err = "only homeowners can change eco mode"
              /\ UNCHANGED <<hvacState, ecoStats, startTime, lastEnergyLog,
                             sensorHealth, errorCount, energy_logs>>]_vars

\* A call has been refused while eco mode was on with one avoided cycle
\* counted.
C22_Witness ==
    /\ result.err = "only homeowners can change eco mode"
    /\ hvacState.EcoMode
    /\ ecoStats.CyclesSaved = 1

\* C23: the eco savings tally.  A tick that stops a run while eco mode is on
\* adds one avoided cycle and 0.15 kWh (heat) or 0.18 kWh (cool); an accepted
\* SetEcoMode(true) sets both counters to zero; every other step (a stop with
\* eco mode off, a start, any other tick, any other mutator call, the
\* passing of time) leaves both counters as they were.
C23_EcoTally ==
    [][IF /\ hvacState.EcoMode
          /\ hvacState.IsRunning
          /\ ~hvacState'.IsRunning
          /\ UpdateHVACLogicWithEco
       THEN /\ hvacState.Mode \in {ModeHeat, ModeCool}
            /\ ecoStats'.CyclesSaved = ecoStats.CyclesSaved + 1
            /\ ecoStats'.EnergySaved = ecoStats.EnergySaved
                                       + (IF hvacState.Mode = ModeHeat THEN 15 ELSE 18)
       ELSE IF SetEcoMode(TRUE, "homeowner")
       THEN ecoStats'.CyclesSaved = 0 /\ ecoStats'.EnergySaved = 0
       ELSE /\ ecoStats'.CyclesSaved = ecoStats.CyclesSaved
            /\ ecoStats'.EnergySaved = ecoStats.EnergySaved]_vars

\* A heating stop in eco mode has been counted.
C23_Witness ==
    /\ hvacState.EcoMode
    /\ hvacState.Mode = ModeHeat
    /\ ~hvacState.IsRunning
    /\ ecoStats.CyclesSaved = 1
    /\ ecoStats.EnergySaved = 15
    /\ result = Logged("hvac_stop")

\* C24: a read of the temperature with the health flag false fails with
\* "sensor malfunction" and does not count an error; no read, successful or
\* failed, changes the health flag: it becomes false only by
\* SimulateSensorFailure and true only by ResetSensor.
C24_HealthFlag ==
    [][/\ (~sensorHealth /\ TickStep) =>
              /\ result'.err = "sensor malfunction"
              /\ errorCount' = errorCount
       /\ (sensorHealth' # sensorHealth) =>
              /\ ~TickStep
              /\ IF sensorHealth THEN SimulateSensorFailure ELSE ResetSensor]_vars

\* A tick has failed on the unhealthy sensor, and the flag is still false
\* and no error has been counted.
C24_Witness ==
    /\ ~sensorHealth
    /\ errorCount = 0
    /\ result = Returned("UpdateHVACLogic", "sensor malfunction", 0)

----------------------------------------------------------------------------
(* sensor.go step by step: the goroutines that read the sensors, ask for   *)
(* their status, inject a fault and reset them, each statement that takes *)
(* or releases sensorMutex a step of its own.                              *)

SensorKinds == {"Temperature", "Humidity", "CO"}

\* A value 30.0 + rand.Float64()*40.0 can produce (per cent)
Humidities == {69}

\* A value rand.Float64()*10.0 can produce (ppm)
COLevels == {9}

\* What the read of each kind draws
Draws(k) ==
    CASE k = "Temperature" -> Readings
      [] k = "Humidity" -> Humidities
      [] k = "CO" -> COLevels

\* The range check of each read
OutOfRange(k, v) ==
    CASE k = "Temperature" -> OutOfPhysicalRange(v)
      [] k = "Humidity" -> v < 0 \/ v > 100
      [] k = "CO" -> v < 0 \/ v > 1000

\* Positions inside ReadTemperature, ReadHumidity and ReadCO: called, holding
\* the read lock, having drawn the value, holding the write lock
Called(k) ==
    CASE k = "Temperature" -> "temp_called"
      [] k = "Humidity" -> "hum_called"
      [] k = "CO" -> "co_called"

RLocked(k) ==
    CASE k = "Temperature" -> "temp_rlocked"
      [] k = "Humidity" -> "hum_rlocked"
      [] k = "CO" -> "co_rlocked"

Drawn(k) ==
    CASE k = "Temperature" -> "temp_drawn"
      [] k = "Humidity" -> "hum_drawn"
      [] k = "CO" -> "co_drawn"

Locked(k) ==
    CASE k = "Temperature" -> "temp_locked"
      [] k = "Humidity" -> "hum_locked"
      [] k = "CO" -> "co_locked"

\* A Lock that does not wait for the holders
SensorLockWithoutWaiting(g) == sensorMutex' = [sensorMutex EXCEPT !.writer = g]

\* sensorMutex.Lock()
SensorLock(g) ==
    /\ sensorMutex.writer = "none"
    /\ sensorMutex.readers = {}
    /\ sensorMutex' = [sensorMutex EXCEPT !.writer = g]

\* sensorMutex.Unlock()
SensorUnlock(g) == sensorMutex' = [sensorMutex EXCEPT !.writer = "none"]

\* sensorMutex.RLock()
SensorRLock(g) ==
    /\ sensorMutex.writer = "none"
    /\ sensorMutex' = [sensorMutex EXCEPT !.readers = @ \cup {g}]

\* sensorMutex.RUnlock()
SensorRUnlock(g) == sensorMutex' = [sensorMutex EXCEPT !.readers = @ \ {g}]

\* The goroutine calls ReadTemperature, ReadHumidity or ReadCO by itself
\* (hvac.go:173, diagnostics.go:38-46)
CallRead(g, k) ==
    /\ pc[g] = "idle"
    /\ Goto(g, Called(k))
    /\ UNCHANGED <<sensorMutex, lastReading, sensorLocal, sensorHealth, errorCount>>

\* The goroutine calls ReadAllSensors, which calls ReadTemperature first
CallReadAllSensors(g) ==
    /\ pc[g] = "idle"
    /\ Goto(g, Called("Temperature"))
    /\ sensorLocal' = [sensorLocal EXCEPT ![g].all = TRUE]
    /\ UNCHANGED <<sensorMutex, lastReading, sensorHealth, errorCount>>

\* The read returns: to its caller, or into ReadAllSensors, which calls the
\* next read and after the third returns its error or builds its reading.
ReadReturns(g, k, err, loc) ==
    IF ~loc.all
    THEN Goto(g, "idle") /\ sensorLocal' = [sensorLocal EXCEPT ![g] = NoSensorCall]
    ELSE LET failed == loc.failed \/ err
             kept == [loc EXCEPT !.failed = failed,
                                 !.reading[k] = IF err THEN 0 ELSE loc.drawn,
                                 !.drawn = 0]
         IN CASE k = "Temperature" ->
                    Goto(g, Called("Humidity")) /\ sensorLocal' = [sensorLocal EXCEPT ![g] = kept]
              [] k = "Humidity" ->
                    Goto(g, Called("CO")) /\ sensorLocal' = [sensorLocal EXCEPT ![g] = kept]
              [] k = "CO" ->
                    IF failed
                    THEN Goto(g, "idle") /\ sensorLocal' = [sensorLocal EXCEPT ![g] = NoSensorCall]
                    ELSE /\ Goto(g, "all_built")
                         /\ sensorLocal' = [sensorLocal EXCEPT
                                               ![g] = [kept EXCEPT !.reading.Timestamp = now]]

\* ReadTemperature / ReadHumidity / ReadCO: sensorMutex.RLock()
ReadRLock(g, k) ==
    /\ pc[g] = Called(k)
    /\ SensorRLock(g)
    /\ Goto(g, RLocked(k))
    /\ UNCHANGED <<lastReading, sensorLocal, sensorHealth, errorCount>>

\* if !sensorHealth { RUnlock; return error }; RUnlock; the value is drawn
ReadHealth(g, k) ==
    /\ pc[g] = RLocked(k)
    /\ SensorRUnlock(g)
    /\ IF ~sensorHealth
       THEN ReadReturns(g, k, TRUE, sensorLocal[g])
       ELSE \E v \in Draws(k) :
                /\ sensorLocal' = [sensorLocal EXCEPT ![g].drawn = v]
                /\ Goto(g, Drawn(k))
    /\ UNCHANGED <<lastReading, sensorHealth, errorCount>>

\* sensorMutex.Lock(), before errorCount++ or before the last reading is
\* written
ReadLock(g, k) ==
    /\ pc[g] = Drawn(k)
    /\ SensorLock(g)
    /\ Goto(g, Locked(k))
    /\ UNCHANGED <<lastReading, sensorLocal, sensorHealth, errorCount>>

\* errorCount++ and the error, or lastReading.<kind> = value and
\* lastReading.Timestamp = time.Now(); then sensorMutex.Unlock() and return
ReadWrite(g, k) ==
    /\ pc[g] = Locked(k)
    /\ SensorUnlock(g)
    /\ IF OutOfRange(k, sensorLocal[g].drawn)
       THEN /\ errorCount' = errorCount + 1
            /\ ReadReturns(g, k, TRUE, sensorLocal[g])
            /\ UNCHANGED lastReading
       ELSE /\ lastReading' = [lastReading EXCEPT ![k] = sensorLocal[g].drawn,
                                                  !.Timestamp = now]
            /\ ReadReturns(g, k, FALSE, sensorLocal[g])
            /\ UNCHANGED errorCount
    /\ UNCHANGED sensorHealth

\* ReadAllSensors: sensorMutex.Lock()
ReadAllSensorsLock(g) ==
    /\ pc[g] = "all_built"
    /\ SensorLock(g)
    /\ Goto(g, "all_locked")
    /\ UNCHANGED <<lastReading, sensorLocal, sensorHealth, errorCount>>

\* ReadAllSensors: lastReading = reading; sensorMutex.Unlock(); return
ReadAllSensorsWrite(g) ==
    /\ pc[g] = "all_locked"
    /\ lastReading' = sensorLocal[g].reading
    /\ SensorUnlock(g)
    /\ Goto(g, "idle")
    /\ sensorLocal' = [sensorLocal EXCEPT ![g] = NoSensorCall]
    /\ UNCHANGED <<sensorHealth, errorCount>>

\* GetSensorStatus: sensorMutex.RLock()
GetSensorStatusRLock(g) ==
    /\ pc[g] = "idle"
    /\ SensorRLock(g)
    /\ Goto(g, "status_rlocked")
    /\ UNCHANGED <<lastReading, sensorLocal, sensorHealth, errorCount>>

\* GetSensorStatus: IsHealthy: sensorHealth
GetSensorStatusHealth(g) ==
    /\ pc[g] = "status_rlocked"
    /\ sensorLocal' = [sensorLocal EXCEPT ![g].status.IsHealthy = sensorHealth]
    /\ Goto(g, "status_half")
    /\ UNCHANGED <<sensorMutex, lastReading, sensorHealth, errorCount>>

\* GetSensorStatus: LastReading: lastReading.Timestamp, ErrorCount:
\* errorCount; return, with the deferred RUnlock
GetSensorStatusReturn(g) ==
    /\ pc[g] = "status_half"
    /\ sensorLocal' = [sensorLocal EXCEPT ![g].status.LastReading = lastReading.Timestamp,
                                          ![g].status.ErrorCount = errorCount]
    /\ SensorRUnlock(g)
    /\ Goto(g, "idle")
    /\ UNCHANGED <<lastReading, sensorHealth, errorCount>>

\* SimulateSensorFailure: sensorMutex.Lock()
SimulateSensorFailureLock(g) ==
    /\ pc[g] = "idle"
    /\ SensorLock(g)
    /\ Goto(g, "failure_locked")
    /\ UNCHANGED <<lastReading, sensorLocal, sensorHealth, errorCount>>

\* SimulateSensorFailure: sensorHealth = false; return, with the deferred
\* Unlock
SimulateSensorFailureWrite(g) ==
    /\ pc[g] = "failure_locked"
    /\ sensorHealth' = FALSE
    /\ SensorUnlock(g)
    /\ Goto(g, "idle")
    /\ UNCHANGED <<lastReading, sensorLocal, errorCount>>

\* ResetSensor: sensorMutex.Lock()
ResetSensorLock(g) ==
    /\ pc[g] = "idle"
    /\ SensorLock(g)
    /\ Goto(g, "reset_locked")
    /\ UNCHANGED <<lastReading, sensorLocal, sensorHealth, errorCount>>

\* ResetSensor: sensorHealth = true; errorCount = 0; return, with the
\* deferred Unlock
ResetSensorWrite(g) ==
    /\ pc[g] = "reset_locked"
    /\ sensorHealth' = TRUE
    /\ errorCount' = 0
    /\ SensorUnlock(g)
    /\ Goto(g, "idle")
    /\ UNCHANGED <<lastReading, sensorLocal>>

\* The controller and the database are not involved in a sensor step
HVACIdle ==
    UNCHANGED <<hvacState, startTime, lastEnergyLog, ecoStats, energy_logs,
                result, calls, runBegan, startMode, lastEvent, hvacMutex, local,
                db, geofenceMutex, at>>

\* hvacControlLoop reads the temperature (hvac.go:173), sensorMonitorLoop
\* reads all sensors (main.go:80), the command line does everything
\* (main.go:334, diagnostics.go:30-46).
NextSensor ==
    \/ \E g \in {"loop", "cli"}, k \in SensorKinds :
           (g = "loop" => k = "Temperature") /\ CallRead(g, k) /\ HVACIdle /\ UNCHANGED now
    \/ \E g \in {"monitor", "cli"} : CallReadAllSensors(g) /\ HVACIdle /\ UNCHANGED now
    \/ \E g \in Goroutines, k \in SensorKinds : ReadRLock(g, k) /\ HVACIdle /\ UNCHANGED now
    \/ \E g \in Goroutines, k \in SensorKinds : ReadHealth(g, k) /\ HVACIdle /\ UNCHANGED now
    \/ \E g \in Goroutines, k \in SensorKinds : ReadLock(g, k) /\ HVACIdle /\ UNCHANGED now
    \/ \E g \in Goroutines, k \in SensorKinds : ReadWrite(g, k) /\ HVACIdle /\ UNCHANGED now
    \/ \E g \in Goroutines : ReadAllSensorsLock(g) /\ HVACIdle /\ UNCHANGED now
    \/ \E g \in Goroutines : ReadAllSensorsWrite(g) /\ HVACIdle /\ UNCHANGED now
    \/ GetSensorStatusRLock("cli") /\ HVACIdle /\ UNCHANGED now
    \/ GetSensorStatusHealth("cli") /\ HVACIdle /\ UNCHANGED now
    \/ GetSensorStatusReturn("cli") /\ HVACIdle /\ UNCHANGED now
    \/ SimulateSensorFailureLock("cli") /\ HVACIdle /\ UNCHANGED now
    \/ SimulateSensorFailureWrite("cli") /\ HVACIdle /\ UNCHANGED now
    \/ ResetSensorLock("cli") /\ HVACIdle /\ UNCHANGED now
    \/ ResetSensorWrite("cli") /\ HVACIdle /\ UNCHANGED now

SpecSensor == Init /\ [][NextSensor]_vars

----------------------------------------------------------------------------
\* C25: the sensor record is serialized.  Under every interleaving of
\* ReadTemperature, ReadHumidity, ReadCO, ReadAllSensors, GetSensorStatus,
\* SimulateSensorFailure and ResetSensor, a goroutine that is about to write
\* the last reading, the error counter or the health flag holds sensorMutex
\* exclusively and no goroutine holds it shared; a goroutine that is reading
\* them holds it shared and nobody holds it exclusively; and the half of the
\* status GetSensorStatus has read still agrees with the sensor when it
\* reads the other half.
C25_SensorSerialized ==
    /\ sensorMutex.writer # "none" => sensorMutex.readers = {}
    /\ \A g \in Goroutines :
          /\ pc[g] \in {Locked(k) : k \in SensorKinds}
                       \cup {"all_locked", "failure_locked", "reset_locked"}
                => sensorMutex.writer = g
          /\ pc[g] \in {RLocked(k) : k \in SensorKinds}
                       \cup {"status_rlocked", "status_half"}
                => g \in sensorMutex.readers /\ sensorMutex.writer = "none"
          /\ pc[g] = "status_half" => sensorLocal[g].status.IsHealthy = sensorHealth

\* sensorMonitorLoop holds the lock to write the reading it has built, while
\* the command line and the control loop each have drawn a value and wait
\* for the lock.
C25_Witness ==
    /\ pc["monitor"] = "all_locked"
    /\ pc["cli"] = "co_drawn"
    /\ pc["loop"] = "temp_drawn"
    /\ sensorMutex = [writer |-> "monitor", readers |-> {}]
    /\ lastReading # sensorLocal["monitor"].reading

----------------------------------------------------------------------------
(* hvac.go while the program shuts down: the signal handler or the menu's  *)
(* exit closes the database (main.go:61, 259) while the control loop and   *)
(* the command line are still running.                                     *)

\* database.go CloseDatabase: db.Close()
CloseDatabase ==
    /\ db' = "closed"
    /\ UNCHANGED <<hvacState, startTime, lastEnergyLog, ecoStats, sensorHealth,
                   errorCount, energy_logs, now, result>>

\* On the closed database a stop writes no row, so the stops the statistics
\* have counted are bounded in place of the rows.
NextStorage ==
    \/ (db = "closed" => ecoStats.CyclesSaved < MaxRecords) /\ Next
    \/ Background /\ CloseDatabase /\ Tracked /\ GeofenceIdle /\ Atomic

SpecStorage == Init /\ [][NextStorage]_vars

\* C26: a tick whose final flush fails to write its row (the run stops, the
\* run's start time is set, and the database refuses the insert) returns an
\* error to its caller.
C26_StorageFailureSurfaced ==
    [][(/\ db = "closed"
        /\ hvacState.IsRunning
        /\ ~hvacState'.IsRunning
        /\ ~IsZero(startTime)
        /\ TickStep) => result'.err # "nil"]_vars

\* What the tick does once the sensor answers again: it can store reading r
\* and end with isRunning = running and cycles avoided cycles, having logged
\* event and appended rows of the given minutes
RecoveredTickYields(r, running, event, minutes, cycles) ==
    ENABLED /\ EcoLogic(r)
            /\ hvacState'.CurrentTemp = r
            /\ hvacState'.IsRunning = running
            /\ result'.event = event
            /\ ecoStats'.CyclesSaved = cycles
            /\ Len(energy_logs') = Len(energy_logs) + Len(minutes)
            /\ \A i \in 1..Len(minutes) :
                  energy_logs'[Len(energy_logs) + i].runtime_minutes = minutes[i]

\* C27: sensor failures are not sticky.  A failed tick leaves nothing behind
\* that a later tick depends on: for every reading, what the tick does once
\* the sensor is healthy again (the reading stored, isRunning, the start or
\* stop event, the rows written, the cycles counted) is the same after the
\* failed tick as before it; and a tick on the healthy sensor does read it
\* and store the reading.
C27_FailureNotSticky ==
    [][/\ (~sensorHealth /\ TickStep) =>
              \A r \in Readings, running \in BOOLEAN,
                 event \in {"none", "hvac_start", "hvac_stop"},
                 minutes \in TickRows, cycles \in 0..MaxRecords :
                  RecoveredTickYields(r, running, event, minutes, cycles)'
                      <=> RecoveredTickYields(r, running, event, minutes, cycles)
       /\ (sensorHealth /\ TickStep) =>
              /\ result'.err = "nil"
              /\ hvacState'.CurrentTemp \in Readings]_vars

\* A tick has failed a while into a cooling run; the run is still on.
C27_Witness ==
    /\ ~sensorHealth
    /\ result = Returned("UpdateHVACLogic", "sensor malfunction", 0)
    /\ hvacState.Mode = ModeCool
    /\ hvacState.IsRunning
    /\ ~IsZero(startTime)
    /\ now > startTime

----------------------------------------------------------------------------
(* main.go's menu and profile.go: what a logged-in user can reach.  The    *)
(* role is that of currentUser; the profiles are rows a homeowner created. *)

MenuRoles == {"homeowner", "technician", "guest"}

\* Table profiles: one profile guests may apply and one they may not
Profiles ==
    { [Name |-> "sleep", TargetTemp |-> 36, HVACMode |-> <<"h","e","a","t">>,
       GuestAccessible |-> 1],
      [Name |-> "sauna", TargetTemp |-> 70, HVACMode |-> <<"h","e","a","t">>,
       GuestAccessible |-> 0] }

\* The names a user can type, one of them of no profile
ProfileNames == {"sleep", "sauna", "attic"}

\* changeHVACMode's map from the digit typed to the mode
MenuModes(input) ==
    CASE input = "1" -> <<"o","f","f">>
      [] input = "2" -> <<"h","e","a","t">>
      [] input = "3" -> <<"c","o","o","l">>
      [] input = "4" -> <<"f","a","n">>
      [] OTHER -> <<>>

\* The menu prints a message and changes nothing
Printed(message) ==
    /\ result' = Returned("handleMenuChoice", message, 0)
    /\ UNCHANGED <<hvacState, startTime, lastEnergyLog, ecoStats, sensorHealth,
                   errorCount, energy_logs, now>>

\* profile.go ApplyProfile: GetProfile, the guest check, SetHVACMode, then
\* SetTargetTemperature unless SetHVACMode returned an error
ApplyProfile(profileName, role) ==
    LET found == {p \in Profiles : p.Name = profileName} IN
    IF found = {}
    THEN Printed("cannot apply this profile")
    ELSE LET profile == CHOOSE p \in found : TRUE
             hvacMode == HVACModeOf(SanitizeInput(profile.HVACMode))
             err == ValidateTemperatureInput(profile.TargetTemp)
         IN IF role = "guest" /\ profile.GuestAccessible # 1
            THEN Printed("cannot apply this profile")
            ELSE IF hvacMode = "invalid"
            THEN Printed("invalid HVAC mode")
            ELSE /\ hvacState' = [hvacState EXCEPT
                                     !.Mode = hvacMode,
                                     !.LastUpdate = now,
                                     !.IsRunning = IF hvacMode = ModeOff THEN FALSE ELSE @,
                                     !.TargetTemp = IF err = "nil" THEN profile.TargetTemp ELSE @]
                 /\ result' = Returned("ApplyProfile", err, IF err = "nil" THEN 2 ELSE 1)
                 /\ UNCHANGED <<startTime, lastEnergyLog, ecoStats, sensorHealth,
                                errorCount, energy_logs, now>>

\* A menu that lets every role set the target temperature
handleMenuChoiceForAll(choice, role, input) ==
    CASE choice = "2" -> SetTargetTemperature(input)
      [] choice = "3" ->
            IF MenuModes(input) = <<>> THEN Printed("Invalid mode")
            ELSE SetHVACMode(MenuModes(input))
      [] choice = "6" ->
            IF role = "guest" THEN ApplyProfile(input, role) ELSE Printed("nil")
      [] choice = "7" ->
            IF role \in {"homeowner", "technician"} THEN ApplyProfile(input, role)
            ELSE Printed("Invalid choice")

\* main.go handleMenuChoice, the choices that reach the controller: 2 set the
\* target temperature, 3 change the mode, 6 profiles (guest) or energy usage
\* (others), 7 profiles (homeowner, technician)
handleMenuChoice(choice, role, input) ==
    CASE choice = "2" ->
            IF role \in {"homeowner", "technician"} THEN SetTargetTemperature(input)
            ELSE Printed("Invalid choice")
      [] choice = "3" ->
            IF MenuModes(input) = <<>> THEN Printed("Invalid mode")
            ELSE SetHVACMode(MenuModes(input))
      [] choice = "6" ->
            IF role = "guest" THEN ApplyProfile(input, role) ELSE Printed("nil")
      [] choice = "7" ->
            IF role \in {"homeowner", "technician"} THEN ApplyProfile(input, role)
            ELSE Printed("Invalid choice")

NextMenu ==
    \/ Foreground /\ (\E role \in MenuRoles, temp \in TempInputs :
                          handleMenuChoice("2", role, temp))
                  /\ Tracked /\ GeofenceIdle /\ DatabaseStays /\ Atomic
    \/ Foreground /\ (\E role \in MenuRoles, digit \in {"1", "2", "3", "4", "9"} :
                          handleMenuChoice("3", role, digit))
                  /\ Tracked /\ GeofenceIdle /\ DatabaseStays /\ Atomic
    \/ Foreground /\ (\E role \in MenuRoles, choice \in {"6", "7"}, name \in ProfileNames :
                          handleMenuChoice(choice, role, name))
                  /\ Tracked /\ GeofenceIdle /\ DatabaseStays /\ Atomic
    \/ Background /\ UpdateHVACLogicWithEco /\ Tracked /\ GeofenceIdle /\ DatabaseStays /\ Atomic
    \/ Background /\ AdvanceTime(MaxTime) /\ Tracked /\ GeofenceIdle /\ DatabaseStays /\ Atomic

SpecMenu == Init /\ [][NextMenu]_vars

\* C28: a guest never sets the target temperature directly.  Whatever a
\* guest chooses in the menu, the target temperature changes only when the
\* guest applies a profile that is marked guest-accessible, and then to that
\* profile's temperature; the guest's choice 2 changes nothing.
C28_GuestSetsNoTarget ==
    [][/\ \A temp \in TempInputs :
              handleMenuChoice("2", "guest", temp) => UNCHANGED hvacState
       /\ \A digit \in {"1", "2", "3", "4", "9"} :
              handleMenuChoice("3", "guest", digit) =>
                  hvacState'.TargetTemp = hvacState.TargetTemp
       /\ \A choice \in {"6", "7"}, name \in ProfileNames :
              (/\ hvacState'.TargetTemp # hvacState.TargetTemp
               /\ handleMenuChoice(choice, "guest", name)) =>
                  /\ choice = "6"
                  /\ \E p \in Profiles :
                        /\ p.Name = name
                        /\ p.GuestAccessible = 1
                        /\ hvacState'.TargetTemp = p.TargetTemp]_vars

\* The guest-accessible profile has been applied during a run, which goes
\* on in the profile's mode with the profile's target.
C28_Witness ==
    /\ hvacState.TargetTemp = 36
    /\ hvacState.Mode = ModeHeat
    /\ hvacState.IsRunning
    /\ result = Returned("ApplyProfile", "nil", 2)

\* C29: the periodic flush.  A successful tick during which the run goes on
\* writes a row only if lastEnergyLog is unset or at least two minutes old;
\* when it writes a row it writes one, sets startTime and lastEnergyLog both
\* to now and leaves isRunning true; when it writes none it leaves both
\* timestamps as they were.
C29_PeriodicFlush ==
    [][(/\ hvacState.IsRunning
        /\ hvacState'.IsRunning
        /\ result'.err = "nil"
        /\ TickStep) =>
           IF energy_logs' # energy_logs
           THEN /\ IsZero(lastEnergyLog) \/ now - lastEnergyLog >= TwoMinutes
                /\ Len(energy_logs') = Len(energy_logs) + 1
                /\ startTime' = now
                /\ lastEnergyLog' = now
           ELSE /\ startTime' = startTime
                /\ lastEnergyLog' = lastEnergyLog]_vars

\* The second periodic flush of one run has just written its row.
C29_Witness ==
    /\ hvacState.IsRunning
    /\ Len(energy_logs) = 2
    /\ energy_logs[1].began = runBegan
    /\ energy_logs[2].began = runBegan
    /\ energy_logs[2].timestamp = now
    /\ startTime = now
    /\ lastEnergyLog = now

\* C30: every successful tick on which the run goes on (isRunning before and
\* after, in Heat, Cool or Fan, whatever the reading) does the periodic
\* accounting: if the last flush is at least two minutes old (or, with no
\* flush yet, the run is) and startTime is at least a whole minute old, the
\* tick writes an energy row.
C30_RunningTickFlushes ==
    [][(/\ hvacState.IsRunning
        /\ hvacState'.IsRunning
        /\ hvacState.Mode \in {ModeHeat, ModeCool, ModeFan}
        /\ ~IsZero(startTime)
        /\ Minutes(now - startTime) >= 1
        /\ IF IsZero(lastEnergyLog) THEN now - startTime >= TwoMinutes
                                    ELSE now - lastEnergyLog >= TwoMinutes
        /\ result'.err = "nil"
        /\ TickStep) =>
           Len(energy_logs') = Len(energy_logs) + 1]_vars

\* C31: entering running from idle, in Heat, Cool and Fan alike, is one tick
\* that sets isRunning, sets startTime to the current time and logs one
\* start event; a tick that finds the unit running logs no start event and
\* moves startTime forward only by a periodic flush (which writes a row).
C31_StartSetsStartTime ==
    [][(result'.err = "nil" /\ TickStep) =>
          /\ (~hvacState.IsRunning /\ hvacState'.IsRunning) =>
                 /\ hvacState.Mode \in {ModeHeat, ModeCool, ModeFan}
                 /\ startTime' = now
                 /\ result'.event = "hvac_start"
          /\ hvacState.IsRunning =>
                 /\ result'.event # "hvac_start"
                 /\ \/ startTime' <= startTime
                    \/ /\ startTime' = now
                       /\ hvacState'.IsRunning
                       /\ Len(energy_logs') = Len(energy_logs) + 1]_vars

\* C32: in Heat or Cool, when neither the start nor the stop condition of the
\* active row holds for the reading, a successful tick leaves isRunning as
\* it was and logs neither a start nor a stop event.
C32_HysteresisHold ==
    [][(/\ hvacState.Mode \in {ModeHeat, ModeCool}
        /\ result'.err = "nil"
        /\ UpdateHVACLogicWithEco
        /\ ~StartCondition(hvacState.Mode, hvacState'.CurrentTemp,
                           hvacState.TargetTemp, hvacState.EcoMode)
        /\ ~StopCondition(hvacState.Mode, hvacState'.CurrentTemp,
                          hvacState.TargetTemp, hvacState.EcoMode)) =>
          /\ hvacState'.IsRunning = hvacState.IsRunning
          /\ result'.event = "none"]_vars

\* A cooling run has been held by a tick that read the target itself.
C32_Witness ==
    /\ hvacState.Mode = ModeCool
    /\ hvacState.IsRunning
    /\ hvacState.CurrentTemp = hvacState.TargetTemp
    /\ hvacState.LastUpdate = now
    /\ ~IsZero(startTime)
    /\ startTime < now
    /\ result = Logged("none")

\* C33: every step that changes a field of the climate state also sets
\* lastUpdate to the current time, and lastUpdate never decreases.
C33_LastUpdateFollowsMutation ==
    [][/\ hvacState'.LastUpdate >= hvacState.LastUpdate
       /\ hvacState' # hvacState => hvacState'.LastUpdate = now]_vars

\* C34: a row written by a tick carries the mode in which the unit ran over
\* the row's interval, and that mode's energy: the mode in force when the
\* interval's startTime was set.
C34_RowCarriesRunMode ==
    [][(Len(energy_logs') = Len(energy_logs) + 1 /\ TickStep) =>
          LET row == energy_logs'[Len(energy_logs')]
          IN /\ row.hvac_mode = startMode
             /\ row.estimated_kwh = estimateEnergyUsage(startMode, row.runtime_minutes)]_vars

\* C35: start and stop events alternate, beginning with a start: a tick logs
\* a start only when the last such event was not a start, and a stop only
\* when the last such event was a start.
C35_EventsAlternate ==
    [][(result'.err = "nil" /\ TickStep) =>
          /\ result'.event = "hvac_start" => lastEvent # "hvac_start"
          /\ result'.event = "hvac_stop" => lastEvent = "hvac_start"]_vars

----------------------------------------------------------------------------
(* The three mutexes together.  Each operation is reduced to the Lock,     *)
(* Unlock, RLock and RUnlock statements it executes, in the order of the   *)
(* code; the statements between them take no lock and are left out.       *)

\* sensor.go ReadTemperature, ReadHumidity, ReadCO: check the health flag
\* under the read lock, release it, write under the write lock
ReadLocks ==
    << <<"RLock", "sensorMutex">>, <<"RUnlock", "sensorMutex">>,
       <<"Lock", "sensorMutex">>, <<"Unlock", "sensorMutex">> >>

\* The same with the health flag false: return after the RUnlock
ReadRefusedLocks == << <<"RLock", "sensorMutex">>, <<"RUnlock", "sensorMutex">> >>

\* SetTargetTemperature taking geofenceMutex while it holds hvacMutex
SetTargetTemperatureLocksGeofence ==
    << <<"Lock", "hvacMutex">>, <<"Lock", "geofenceMutex">>,
       <<"Unlock", "geofenceMutex">>, <<"Unlock", "hvacMutex">> >>

\* hvac.go SetTargetTemperature, which calls nothing that locks
SetTargetTemperatureLocks == << <<"Lock", "hvacMutex">>, <<"Unlock", "hvacMutex">> >>

\* The statements of every operation
LockPrograms ==
    [UpdateHVACLogicWithEco |->
         << <<"Lock", "hvacMutex">> >> \o ReadLocks \o << <<"Unlock", "hvacMutex">> >>,
     UpdateHVACLogicWithEcoRefused |->
         << <<"Lock", "hvacMutex">> >> \o ReadRefusedLocks \o << <<"Unlock", "hvacMutex">> >>,
     ReadAllSensors |->
         ReadLocks \o ReadLocks \o ReadLocks
             \o << <<"Lock", "sensorMutex">>, <<"Unlock", "sensorMutex">> >>,
     ReadAllSensorsRefused |-> ReadRefusedLocks \o ReadRefusedLocks \o ReadRefusedLocks,
     CheckAwayModeReturn |->
         SetTargetTemperatureLocks \o << <<"Lock", "hvacMutex">>, <<"Unlock", "hvacMutex">> >>,
     CheckAndUpdateMaintenance |-> << <<"RLock", "hvacMutex">>, <<"RUnlock", "hvacMutex">> >>,
     GeofenceMonitorLoop |->
         << <<"RLock", "geofenceMutex">>, <<"RUnlock", "geofenceMutex">>,
            <<"Lock", "geofenceMutex">> >>
             \o SetTargetTemperatureLocks \o << <<"Unlock", "geofenceMutex">> >>,
     GeofenceMonitorLoopAtHome |->
         << <<"RLock", "geofenceMutex">>, <<"RUnlock", "geofenceMutex">>,
            <<"Lock", "geofenceMutex">>, <<"Unlock", "geofenceMutex">> >>,
     SetTargetTemperature |-> SetTargetTemperatureLocks,
     SimulateSensorFailure |-> << <<"Lock", "sensorMutex">>, <<"Unlock", "sensorMutex">> >>,
     GetSensorStatus |-> << <<"RLock", "sensorMutex">>, <<"RUnlock", "sensorMutex">> >>,
     ToggleGeofence |-> << <<"Lock", "geofenceMutex">>, <<"Unlock", "geofenceMutex">> >>]

\* What each goroutine runs
ThreadOperations ==
    [hvacControlLoop |-> {"UpdateHVACLogicWithEco", "UpdateHVACLogicWithEcoRefused"},
     sensorMonitorLoop |-> {"ReadAllSensors", "ReadAllSensorsRefused"},
     awayModeCheckLoop |-> {"CheckAwayModeReturn"},
     maintenanceCheckLoop |-> {"CheckAndUpdateMaintenance"},
     GeofenceMonitorLoop |-> {"GeofenceMonitorLoop", "GeofenceMonitorLoopAtHome"},
     cli |-> {"SetTargetTemperature", "SimulateSensorFailure", "GetSensorStatus",
              "ToggleGeofence"}]

\* The statement the goroutine is at
Statement(t) == LockPrograms[at[t].op][at[t].i]

\* The goroutines blocked inside Lock() or RLock() of the mutex
Waiters(statement, mutex) ==
    {t \in Threads : /\ at[t].op # "idle"
                     /\ at[t].waiting
                     /\ Statement(t) = <<statement, mutex>>}

\* The mutex of that name
Mutex(mutex) ==
    CASE mutex = "hvacMutex" -> hvacMutex
      [] mutex = "sensorMutex" -> sensorMutex
      [] OTHER -> geofenceMutex

\* The mutex of that name becomes value, the other two stay
SetMutex(mutex, value) ==
    /\ hvacMutex' = IF mutex = "hvacMutex" THEN value ELSE hvacMutex
    /\ sensorMutex' = IF mutex = "sensorMutex" THEN value ELSE sensorMutex
    /\ geofenceMutex' = IF mutex = "geofenceMutex" THEN value ELSE geofenceMutex

\* The goroutines of the set are past their statement; after the last
\* statement the operation returns
Past(set) ==
    [t \in Threads |->
        IF t \notin set THEN at[t]
        ELSE IF at[t].i = Len(LockPrograms[at[t].op]) THEN Returned0
        ELSE [at[t] EXCEPT !.i = @ + 1, !.waiting = FALSE]]

\* The goroutine starts an operation
Begin(t, op) ==
    /\ at[t].op = "idle"
    /\ Cardinality({u \in Threads : at[u].op # "idle"}) < MaxBusy
    /\ at' = [at EXCEPT ![t] = [op |-> op, i |-> 1, waiting |-> FALSE]]
    /\ UNCHANGED <<hvacMutex, sensorMutex, geofenceMutex>>

\* The goroutine's statement, as sync.RWMutex executes it.  Lock() announces
\* the writer and returns once no writer and no reader holds the mutex.
\* RLock() returns at once unless a writer holds the mutex or waits for it;
\* else the reader waits until a writer's Unlock(), which admits all the
\* readers waiting.
Execute(t) ==
    /\ at[t].op # "idle"
    /\ LET statement == Statement(t)[1]
           mutex == Statement(t)[2]
           m == Mutex(mutex)
       IN CASE statement = "Lock" ->
                 IF ~at[t].waiting
                 THEN /\ at' = [at EXCEPT ![t].waiting = TRUE]
                      /\ UNCHANGED <<hvacMutex, sensorMutex, geofenceMutex>>
                 ELSE /\ m.writer = "none"
                      /\ m.readers = {}
                      /\ SetMutex(mutex, [m EXCEPT !.writer = t])
                      /\ at' = Past({t})
            [] statement = "RLock" ->
                 /\ ~at[t].waiting
                 /\ IF m.writer = "none" /\ Waiters("Lock", mutex) = {}
                    THEN /\ SetMutex(mutex, [m EXCEPT !.readers = @ \cup {t}])
                         /\ at' = Past({t})
                    ELSE /\ at' = [at EXCEPT ![t].waiting = TRUE]
                         /\ UNCHANGED <<hvacMutex, sensorMutex, geofenceMutex>>
            [] statement = "Unlock" ->
                 /\ SetMutex(mutex, [writer |-> "none", readers |-> Waiters("RLock", mutex)])
                 /\ at' = Past({t} \cup Waiters("RLock", mutex))
            [] OTHER ->
                 /\ SetMutex(mutex, [m EXCEPT !.readers = @ \ {t}])
                 /\ at' = Past({t})

\* The lock statements change nothing but the mutexes
LocksOnly ==
    UNCHANGED <<hvacState, startTime, lastEnergyLog, ecoStats, sensorHealth,
                errorCount, energy_logs, now, result, calls, runBegan, startMode,
                lastEvent, pc, local, lastReading, sensorLocal, db>>

\* A goroutine inside an operation runs on
Run(t) == Execute(t) /\ LocksOnly

NextMutex ==
    \/ \E t \in Threads : (\E op \in ThreadOperations[t] : Begin(t, op)) /\ LocksOnly
    \/ \E t \in Threads : Execute(t) /\ LocksOnly

\* The scheduler runs every goroutine that can run, and a mutex that is
\* released again and again is handed to each goroutine waiting for it
SpecMutex == Init /\ [][NextMutex]_vars /\ \A t \in Threads : SF_vars(Run(t))

\* C36: the goroutines take the three mutexes in one order (geofenceMutex,
\* hvacMutex, sensorMutex), so every operation that is started completes:
\* no goroutine waits for a lock for ever.
C36_OperationsComplete ==
    \A t \in Threads : (at[t].op # "idle") ~> (at[t].op = "idle")

\* The geofence check holds geofenceMutex and waits for hvacMutex, which
\* the control tick holds while it waits for sensorMutex, which the sensor
\* monitor holds.
C36_Witness ==
    /\ geofenceMutex.writer = "GeofenceMonitorLoop"
    /\ Waiters("Lock", "hvacMutex") = {"GeofenceMonitorLoop"}
    /\ hvacMutex.writer = "hvacControlLoop"
    /\ Waiters("Lock", "sensorMutex") = {"hvacControlLoop"}
    /\ sensorMutex.writer = "sensorMonitorLoop"

\* C37: while the health flag is false (SimulateSensorFailure has returned
\* and ResetSensor has not run), no ReadTemperature, ReadHumidity or ReadCO
\* writes the last reading or returns a value, not even a call that was in
\* progress when the failure was simulated.
C37_NoReadAfterFailure ==
    [][~sensorHealth =>
          \A g \in Goroutines, k \in SensorKinds :
              ReadWrite(g, k) => /\ OutOfRange(k, sensorLocal[g].drawn)
                                 /\ lastReading' = lastReading]_vars

----------------------------------------------------------------------------
(* The readers of the sensors with the clock running: hvacControlLoop      *)
(* reads the temperature, sensorMonitorLoop and the command line read all  *)
(* sensors.                                                                *)

\* Time passes between two statements of the sensor functions
SensorClock ==
    /\ AdvanceTime(MaxTime)
    /\ HVACIdle
    /\ UNCHANGED <<pc, sensorMutex, lastReading, sensorLocal>>

NextReadings ==
    \/ CallRead("loop", "Temperature") /\ HVACIdle /\ UNCHANGED now
    \/ \E g \in {"monitor", "cli"} : CallReadAllSensors(g) /\ HVACIdle /\ UNCHANGED now
    \/ \E g \in Goroutines, k \in SensorKinds : ReadRLock(g, k) /\ HVACIdle /\ UNCHANGED now
    \/ \E g \in Goroutines, k \in SensorKinds : ReadHealth(g, k) /\ HVACIdle /\ UNCHANGED now
    \/ \E g \in Goroutines, k \in SensorKinds : ReadLock(g, k) /\ HVACIdle /\ UNCHANGED now
    \/ \E g \in Goroutines, k \in SensorKinds : ReadWrite(g, k) /\ HVACIdle /\ UNCHANGED now
    \/ \E g \in Goroutines : ReadAllSensorsLock(g) /\ HVACIdle /\ UNCHANGED now
    \/ \E g \in Goroutines : ReadAllSensorsWrite(g) /\ HVACIdle /\ UNCHANGED now
    \/ SensorClock

SpecReadings == Init /\ [][NextReadings]_vars

\* C38: the last reading only moves forward: its timestamp never decreases,
\* and a write of ReadAllSensors never replaces it by a reading that was
\* built before it.
C38_LastReadingMovesForward ==
    [][/\ lastReading'.Timestamp >= lastReading.Timestamp
       /\ \A g \in Goroutines :
              ReadAllSensorsWrite(g) =>
                  sensorLocal[g].reading.Timestamp >= lastReading.Timestamp]_vars

----------------------------------------------------------------------------
(* profile.go ApplyProfile call by call, beside the control loop: the      *)
(* command line runs SetHVACMode and SetTargetTemperature one after the    *)
(* other, each under hvacMutex for the length of its own body.             *)

\* ApplyProfile up to the return of SetHVACMode: GetProfile, the guest
\* check, SetHVACMode(profile.HVACMode, user), return on its error
ApplyProfileSetHVACMode(profileName, role) ==
    /\ pc["cli"] = "idle"
    /\ LET found == {p \in Profiles : p.Name = profileName} IN
       IF found = {}
       THEN Printed("cannot apply this profile") /\ UNCHANGED <<pc, local>>
       ELSE LET profile == CHOOSE p \in found : TRUE IN
            IF role = "guest" /\ profile.GuestAccessible # 1
            THEN Printed("cannot apply this profile") /\ UNCHANGED <<pc, local>>
            ELSE /\ SetHVACMode(profile.HVACMode)
                 /\ IF result'.err = "nil"
                    THEN /\ Goto("cli", "profile_mode_set")
                         /\ local' = [local EXCEPT !.call = [op |-> "ApplyProfile",
                                                             arg |-> profile.TargetTemp]]
                    ELSE UNCHANGED <<pc, local>>

\* ApplyProfile from there: SetTargetTemperature(profile.TargetTemp, user)
\* and return
ApplyProfileSetTargetTemperature ==
    /\ pc["cli"] = "profile_mode_set"
    /\ SetTargetTemperature(local.call.arg)
    /\ Goto("cli", "idle")
    /\ local' = [local EXCEPT !.call = NoCall]

\* The command line is between two calls
CliIdle == pc["cli"] = "idle" /\ UNCHANGED <<pc, local>>

NextProfile ==
    \/ Foreground /\ (\E role \in MenuRoles, name \in ProfileNames :
                          ApplyProfileSetHVACMode(name, role))
                  /\ Tracked /\ GeofenceIdle /\ DatabaseStays /\ UNCHANGED hvacMutex /\ SensorIdle
    \/ Background /\ ApplyProfileSetTargetTemperature
                  /\ Tracked /\ GeofenceIdle /\ DatabaseStays /\ UNCHANGED hvacMutex /\ SensorIdle
    \/ Foreground /\ (\E temp \in TempInputs : SetTargetTemperature(temp)) /\ CliIdle
                  /\ Tracked /\ GeofenceIdle /\ DatabaseStays /\ UNCHANGED hvacMutex /\ SensorIdle
    \/ Foreground /\ (\E mode \in ModeInputs : SetHVACMode(mode)) /\ CliIdle
                  /\ Tracked /\ GeofenceIdle /\ DatabaseStays /\ UNCHANGED hvacMutex /\ SensorIdle
    \/ Background /\ UpdateHVACLogicWithEco /\ Tracked /\ GeofenceIdle /\ DatabaseStays /\ Atomic
    \/ Background /\ AdvanceTime(MaxTime) /\ Tracked /\ GeofenceIdle /\ DatabaseStays /\ Atomic

SpecProfile == Init /\ [][NextProfile]_vars

\* C39: no tick runs between ApplyProfile's change of the mode and its
\* change of the target temperature, so no tick compares the reading with
\* the previous target under the profile's mode.
C39_ApplyProfileAtomic ==
    [][pc["cli"] = "profile_mode_set" => ~UpdateHVACLogicWithEco]_vars

====
